---------------------------- MODULE Spec2Model ----------------------------
(***************************************************************************)
(* A model of the dependency-vulnerability assistant (vulnera):            *)
(*   - SecurityAssistantService (security-assistant.service.ts): target    *)
(*     identity, ecosystem detection, the two scanner adapters, the        *)
(*     decision operations and the bounded scan history with its diff;     *)
(*   - SecurityAssistantTools (security-assistant.tools.ts): the tool      *)
(*     handlers and withResolvedProject, as asynchronous requests that     *)
(*     interleave at their await points on one JavaScript event loop.      *)
(*                                                                         *)
(* Conventions for JavaScript values:                                      *)
(*   - text that the code only passes around (package names, versions,     *)
(*     titles) is a TLA+ string; text that the code parses (repository     *)
(*     references, subpaths, paths) is a sequence of one-character strings;*)
(*   - an optional field that is absent holds Undefined; the booleans of   *)
(*     a field that may also hold text are JSTrue and JSFalse.             *)
(***************************************************************************)
EXTENDS Naturals, Integers, Sequences, FiniteSets, TLC

VARIABLES
    scanStore,   \* SecurityAssistantService.scanStore: repoId -> sequence of SavedScan
    clock,       \* the instants read so far by new Date() / Date.now()
    reqs,        \* the tool requests in flight, one per slot
    tmpDirs,     \* the temporary directories that exist
    world,       \* what a scan of each target finds (manifests, scanner output)
    started,     \* number of requests begun
    changes,     \* number of times a target's content changed
    history,     \* per repoId, every compareScansOverTime call in call order:
                 \* the scan it appended and the id of the previous scan it read
    last,        \* how the last request that compared or failed went
    input,       \* the argument of a pure operation under check
    output       \* its result

vars == <<scanStore, clock, reqs, tmpDirs, world, started, changes, history,
          last, input, output>>

-----------------------------------------------------------------------------
(* JavaScript values *)

Undefined == "<undefined>"
JSTrue == "<true>"
JSFalse == "<false>"

\* typeof x === 'string', for a field holding text, a boolean or nothing
IsString(x) == x \notin {Undefined, JSTrue, JSFalse}

\* the truthiness of such a field
Truthy(x) == x \notin {Undefined, JSFalse, ""}

\* a ?? b
Coalesce(a, b) == IF a = Undefined THEN b ELSE a

Min(a, b) == IF a <= b THEN a ELSE b

Range(s) == {s[i] : i \in DOMAIN s}

-----------------------------------------------------------------------------
(* Severity model (security-assistant.data.ts) *)

SEVERITY_ORDER == <<"critical", "high", "moderate", "low", "info">>

Severities == Range(SEVERITY_ORDER)

SEVERITY_SCORE == [critical |-> 100, high |-> 80, moderate |-> 50, low |-> 20, info |-> 5]

MAX_SCANS_PER_REPO == 20

ZeroCounts == [s \in Severities |-> 0]

-----------------------------------------------------------------------------
(* Scan history and comparator *)

keyWithId(v) == v.name \o ":" \o v.severity \o ":" \o v.id

\* key = (v) => `${v.name}:${v.severity}`
key(v) == v.name \o ":" \o v.severity

KeySet(list) == {key(list[i]) : i \in DOMAIN list}

diffVulnerabilitiesNoNegation(baseline, current) ==
    LET currentSet == KeySet(current)
        baselineSet == KeySet(baseline)
    IN [fixed |-> SelectSeq(baseline, LAMBDA v : key(v) \in currentSet),
        introduced |-> SelectSeq(current, LAMBDA v : key(v) \notin baselineSet)]

\* the findings of list that are the first of their key
RECURSIVE FirstPerKey(_, _)
FirstPerKey(list, seen) ==
    IF list = <<>> THEN <<>>
    ELSE IF key(Head(list)) \in seen THEN FirstPerKey(Tail(list), seen)
    ELSE <<Head(list)>> \o FirstPerKey(Tail(list), seen \cup {key(Head(list))})

diffVulnerabilitiesDistinct(baseline, current) ==
    LET currentSet == KeySet(current)
        baselineSet == KeySet(baseline)
    IN [fixed |-> FirstPerKey(SelectSeq(baseline, LAMBDA v : key(v) \notin currentSet), {}),
        introduced |-> FirstPerKey(SelectSeq(current, LAMBDA v : key(v) \notin baselineSet), {})]

diffVulnerabilities(baseline, current) ==
    LET currentSet == KeySet(current)
        baselineSet == KeySet(baseline)
    IN [fixed |-> SelectSeq(baseline, LAMBDA v : key(v) \notin currentSet),
        introduced |-> SelectSeq(current, LAMBDA v : key(v) \notin baselineSet)]

\* Array.prototype.slice(-n), n > 0
SliceLast(list, n) ==
    IF Len(list) <= n THEN list ELSE SubSeq(list, Len(list) - n + 1, Len(list))

StoreGetAnyKey(store, repoId) ==
    IF repoId \in DOMAIN store THEN store[repoId]
    ELSE IF DOMAIN store # {} THEN store[CHOOSE k \in DOMAIN store : TRUE]
    ELSE <<>>

\* scanStore.get(repoId) ?? []
StoreGet(store, repoId) == IF repoId \in DOMAIN store THEN store[repoId] ELSE <<>>

\* scanStore.set(repoId, list)
StoreSet(store, repoId, list) ==
    [k \in DOMAIN store \cup {repoId} |-> IF k = repoId THEN list ELSE store[k]]

\* const previous = list.length > 0 ? list[list.length - 1] : null
NoScan == [id |-> 0]

PreviousOldest(list) == IF Len(list) > 0 THEN list[1] ELSE NoScan

Previous(list) == IF Len(list) > 0 THEN list[Len(list)] ELSE NoScan

AppendedKeepOldest(list, scan) ==
    SubSeq(Append(list, scan), 1, Min(Len(list) + 1, MAX_SCANS_PER_REPO))

AppendedClearedAtCap(list, scan) ==
    IF Len(list) >= MAX_SCANS_PER_REPO THEN <<>> ELSE Append(list, scan)

\* list = [...list, scan].slice(-MAX_SCANS_PER_REPO)
Appended(list, scan) == SliceLast(Append(list, scan), MAX_SCANS_PER_REPO)

Snapshot(scannedAt, summary) ==
    [scannedAt |-> scannedAt, counts |-> summary.counts,
     totalVulnerabilities |-> summary.totalVulnerabilities]

\* The SavedScan built at lines 735-744. now is the instant read by new Date()
\* and Date.now(); the random suffix of the id is not modelled, the id is the
\* instant.
NewScan(repoId, currentSummary, options, now) ==
    [id |-> now, repoId |-> repoId, ref |-> options.ref, subpath |-> options.subpath,
     scannedAt |-> now, summary |-> currentSummary,
     projectType |-> options.projectType]

CompareResultAgainstEmpty(repoId, previous, currentSummary, now) ==
    LET currentSnapshot == Snapshot(now, currentSummary)
        baseline == IF previous = NoScan
                    THEN [scannedAt |-> now,
                          summary |-> [counts |-> ZeroCounts, totalVulnerabilities |-> 0,
                                       vulnerabilities |-> <<>>]]
                    ELSE previous
        d == diffVulnerabilities(baseline.summary.vulnerabilities,
                                 currentSummary.vulnerabilities)
    IN [repoId |-> repoId,
        baseline |-> Snapshot(baseline.scannedAt, baseline.summary),
        current |-> currentSnapshot,
        fixed |-> d.fixed, introduced |-> d.introduced,
        isFirstScan |-> previous = NoScan,
        delta |-> currentSummary.totalVulnerabilities
                  - baseline.summary.totalVulnerabilities,
        totalFixed |-> Len(d.fixed), totalIntroduced |-> Len(d.introduced)]

\* The CompareScansResult of compareScansOverTime, given the previous scan it
\* read. delta is the number interpolated into the summary text.
CompareResult(repoId, previous, currentSummary, now) ==
    LET currentSnapshot == Snapshot(now, currentSummary)
    IN IF previous = NoScan
       THEN [repoId |-> repoId, baseline |-> currentSnapshot,
             current |-> currentSnapshot, fixed |-> <<>>, introduced |-> <<>>,
             isFirstScan |-> TRUE, delta |-> 0,
             totalFixed |-> 0, totalIntroduced |-> 0]
       ELSE LET d == diffVulnerabilities(previous.summary.vulnerabilities,
                                         currentSummary.vulnerabilities)
            IN [repoId |-> repoId,
                baseline |-> Snapshot(previous.scannedAt, previous.summary),
                current |-> currentSnapshot,
                fixed |-> d.fixed, introduced |-> d.introduced,
                isFirstScan |-> FALSE,
                delta |-> currentSummary.totalVulnerabilities
                          - previous.summary.totalVulnerabilities,
                totalFixed |-> Len(d.fixed), totalIntroduced |-> Len(d.introduced)]

\* SecurityAssistantService.compareScansOverTime: the new store, the locals
\* and the returned result.
compareScansOverTime(store, repoId, currentSummary, options, now) ==
    LET scan == NewScan(repoId, currentSummary, options, now)
        list == StoreGet(store, repoId)
        previous == Previous(list)
    IN [store |-> StoreSet(store, repoId, Appended(list, scan)),
        scan |-> scan,
        previous |-> previous,
        result |-> CompareResult(repoId, previous, currentSummary, now)]

-----------------------------------------------------------------------------
(* Ecosystem detection and the external scanners *)

JSNull == "<null>"

ManifestFiles == {"package.json", "requirements.txt", "pyproject.toml", "Pipfile"}

detectProjectTypePythonFirst(files) ==
    IF "requirements.txt" \in files \/ "pyproject.toml" \in files \/ "Pipfile" \in files
    THEN "python"
    ELSE IF "package.json" \in files THEN "node"
    ELSE JSNull

\* detectProjectType: files are the manifests present at the project root
detectProjectType(files) ==
    IF "package.json" \in files THEN "node"
    ELSE IF "requirements.txt" \in files \/ "pyproject.toml" \in files
            \/ "Pipfile" \in files
         THEN "python"
         ELSE JSNull

\* Text produced by a scanner process is modelled by what JSON.parse makes of
\* it: kind "json" parses to .value, kinds "empty" (the empty string) and
\* "garbage" make JSON.parse throw, kind "undefined" is no text at all.
NoText == [kind |-> "undefined"]
EmptyText == [kind |-> "empty"]
Garbage == [kind |-> "garbage"]
Json(v) == [kind |-> "json", value |-> v]

Parsable(text) == text.kind = "json"

\* the value null, as a parsed document or as a function result
NullJson == [isNull |-> TRUE]

\* runAudit. npm is the outcome of execSync('npm audit --json'):
\* [status |-> "ok", stdout |-> text] when it exits 0, and
\* [status |-> "error", stdout |-> text] when it throws (err.stdout).
runAudit(files, npm) ==
    IF "package.json" \notin files THEN NullJson
    ELSE IF npm.status = "ok"
         THEN \* JSON.parse(out); a SyntaxError has no stdout: return null
              IF Parsable(npm.stdout) THEN npm.stdout.value ELSE NullJson
         ELSE \* if (raw) try JSON.parse(raw); return null
              IF npm.stdout.kind \in {"undefined", "empty"} THEN NullJson
              ELSE IF Parsable(npm.stdout) THEN npm.stdout.value ELSE NullJson

runPipAuditEmptyOnFailure(files, pip) ==
    LET rawOut == IF pip.first # NoText THEN pip.first ELSE pip.second
    IN IF rawOut # NoText /\ Parsable(rawOut) /\ rawOut.value # NullJson
       THEN rawOut.value
       ELSE [shape |-> "array", items |-> <<>>]

\* runPipAudit. pip.first and pip.second are what run('pip-audit') and
\* run('python -m pip_audit') return: a text, or NoText for null.
runPipAudit(files, pip) ==
    LET hasReq == "requirements.txt" \in files
        hasPyproject == "pyproject.toml" \in files
        rawOut == IF pip.first # NoText THEN pip.first ELSE pip.second
    IN IF ~hasReq /\ ~hasPyproject THEN NullJson
       ELSE IF rawOut = NoText THEN NullJson
       ELSE IF Parsable(rawOut) THEN rawOut.value ELSE NullJson

-----------------------------------------------------------------------------
(* Adapter B: pip-audit *)

\* String.prototype.toLowerCase on the severity spellings of the inputs
UpperSpellings ==
    [HIGH |-> "high", High |-> "high", CRITICAL |-> "critical", Medium |-> "medium",
     MEDIUM |-> "medium", Low |-> "low", Constructor |-> "constructor"]

toLowerCase(s) == IF s \in DOMAIN UpperSpellings THEN UpperSpellings[s] ELSE s

severityMap ==
    [critical |-> "critical", high |-> "high", medium |-> "moderate",
     moderate |-> "moderate", low |-> "low", info |-> "info"]

\* severityMap is a plain object: a lookup of a name that Object.prototype
\* defines gives that inherited member, which is truthy and is no severity.
InheritedKeys == {"constructor", "__proto__"}
InheritedMember == "<Object.prototype member>"

\* const sev = (sevRaw && severityMap[sevRaw]) ? severityMap[sevRaw] : 'high'
PipSeverity(known_severity) ==
    LET sevRaw == IF known_severity = Undefined THEN Undefined
                  ELSE toLowerCase(known_severity)
    IN IF sevRaw = Undefined \/ sevRaw = "" THEN "high"
       ELSE IF sevRaw \in DOMAIN severityMap THEN severityMap[sevRaw]
       ELSE IF sevRaw \in InheritedKeys THEN InheritedMember
       ELSE "high"

\* description?.slice(0, 80): the inputs' one description longer than 80
\* characters and its prefix
LongDescription == "<a description of 200 characters>"
LongDescriptionPrefix == "<its first 80 characters>"

Slice80(d) == IF d = LongDescription THEN LongDescriptionPrefix ELSE d

PipVulnerabilityLastFix(dep, v, sev) ==
    [name |-> dep.name,
     severity |-> sev,
     title |-> IF v.id # Undefined THEN v.id
               ELSE IF v.description = Undefined THEN Undefined
               ELSE Slice80(v.description),
     id |-> v.id,
     range |-> dep.version,
     fixAvailable |-> IF Len(v.fix_versions) > 0 THEN v.fix_versions[Len(v.fix_versions)]
                      ELSE JSFalse,
     via |-> <<>>,
     isDirect |-> JSTrue,
     description |-> v.description]

PipVulnerability(dep, v, sev) ==
    [name |-> dep.name,
     severity |-> sev,
     title |-> IF v.id # Undefined THEN v.id
               ELSE IF v.description = Undefined THEN Undefined
               ELSE Slice80(v.description),
     id |-> v.id,
     range |-> dep.version,
     fixAvailable |-> IF Len(v.fix_versions) > 0 THEN v.fix_versions[1] ELSE JSFalse,
     via |-> <<>>,
     isDirect |-> JSTrue,
     description |-> v.description]

\* the inner loop of normalizePipAuditToSummary over one dependency's vulns,
\* from the accumulator acc = [counts, vulnerabilities]
RECURSIVE PipVulnLoop(_, _, _)
PipVulnLoop(dep, vulns, acc) ==
    IF vulns = <<>> THEN acc
    ELSE LET v == Head(vulns)
             sev == PipSeverity(v.known_severity)
         IN IF sev \notin Severities
            THEN PipVulnLoop(dep, Tail(vulns), acc)
            ELSE PipVulnLoop(dep, Tail(vulns),
                    [counts |-> [acc.counts EXCEPT ![sev] = @ + 1],
                     vulnerabilities |->
                        Append(acc.vulnerabilities, PipVulnerability(dep, v, sev))])

\* the outer loop over the dependencies
RECURSIVE PipDepLoop(_, _)
PipDepLoop(deps, acc) ==
    IF deps = <<>> THEN acc
    ELSE LET dep == Head(deps)
             vulns == IF dep.vulns.present THEN dep.vulns.items ELSE <<>>
         IN PipDepLoop(Tail(deps), PipVulnLoop(dep, vulns, acc))

\* Array.isArray(audit) ? audit : (audit.dependencies ?? audit.vulnerabilities ?? [])
PipDeps(audit) ==
    IF audit.shape = "array" THEN audit.items
    ELSE IF audit.dependencies.present THEN audit.dependencies.items
    ELSE IF audit.vulnerabilities.present THEN audit.vulnerabilities.items
    ELSE <<>>

normalizePipAuditToSummary(audit) ==
    LET acc == PipDepLoop(PipDeps(audit),
                          [counts |-> ZeroCounts, vulnerabilities |-> <<>>])
    IN [counts |-> acc.counts,
        totalVulnerabilities |-> Len(acc.vulnerabilities),
        hasCriticalOrHigh |-> acc.counts["critical"] > 0 \/ acc.counts["high"] > 0,
        vulnerabilities |-> acc.vulnerabilities]

-----------------------------------------------------------------------------
(* Adapter A: npm audit *)

EmptySummary ==
    [counts |-> ZeroCounts, totalVulnerabilities |-> 0, hasCriticalOrHigh |-> FALSE,
     vulnerabilities |-> <<>>]

\* meta[s] ?? 0, meta a partial map from severity to count
MetaCount(meta, s) == IF s \in DOMAIN meta THEN meta[s] ELSE 0

\* const meta = audit.metadata?.vulnerabilities ?? {}
MetaOf(audit) ==
    IF audit.metadata.present THEN audit.metadata.vulnerabilities ELSE <<>>

NodeCountsFromEntries(audit) ==
    [s \in Severities |->
        Cardinality({i \in DOMAIN audit.vulnerabilities.entries :
                        Coalesce(audit.vulnerabilities.entries[i].v.severity, "moderate") = s})]

\* counts[s] = meta[s] ?? 0 for each key of counts
NodeCounts(audit) == [s \in Severities |-> MetaCount(MetaOf(audit), s)]

\* const severity = (v.severity ?? 'moderate')
NodeSeverity(v) == Coalesce(v.severity, "moderate")

\* via = Array.isArray(v.via) ? v.via : v.via ? [v.via] : []
ViaArray(via) ==
    IF via.kind = "array" THEN via.items
    ELSE IF via.kind = "string" /\ via.items[1].text # "" THEN via.items
    ELSE <<>>

\* typeof x === 'string' ? x : x?.title
ViaTitle(x) == IF x.kind = "string" THEN x.text ELSE x.title

FirstVia(v) ==
    LET via == ViaArray(v.via)
    IN IF via = <<>> THEN Undefined ELSE ViaTitle(via[1])

\* viaStrings, with undefined (also the result for an empty array) as <<>>
ViaStrings(v) ==
    IF v.via.kind = "array"
    THEN [i \in DOMAIN v.via.items |-> Coalesce(ViaTitle(v.via.items[i]), "")]
    ELSE <<>>

\* the three raw shapes of fixAvailable
NodeFixVersion(fixAvailable) ==
    IF fixAvailable.type = "object" /\ Truthy(fixAvailable.version)
    THEN fixAvailable.version
    ELSE IF fixAvailable.type \in {"boolean", "string"} THEN fixAvailable.value
    ELSE Undefined

NodeVulnerability(name, v) ==
    LET firstVia == FirstVia(v)
    IN [name |-> name,
        severity |-> NodeSeverity(v),
        title |-> firstVia,
        id |-> Undefined,
        range |-> v.range,
        fixAvailable |-> NodeFixVersion(v.fixAvailable),
        via |-> ViaStrings(v),
        isDirect |-> v.isDirect,
        description |-> IF Truthy(firstVia) THEN name \o ": " \o firstVia
                        ELSE Undefined]

\* the loop over Object.entries(audit.vulnerabilities)
RECURSIVE NodeLoop(_, _)
NodeLoop(entries, vulnerabilities) ==
    IF entries = <<>> THEN vulnerabilities
    ELSE LET e == Head(entries)
         IN IF NodeSeverity(e.v) \notin Severities
            THEN NodeLoop(Tail(entries), vulnerabilities)
            ELSE NodeLoop(Tail(entries),
                          Append(vulnerabilities, NodeVulnerability(e.name, e.v)))

NodeSummaryTotalFromCounts(audit) ==
    IF audit = NullJson \/ ~audit.vulnerabilities.present
    THEN EmptySummary
    ELSE LET counts == NodeCounts(audit)
             vulnerabilities == NodeLoop(audit.vulnerabilities.entries, <<>>)
         IN [counts |-> counts,
             totalVulnerabilities |->
                counts["critical"] + counts["high"] + counts["moderate"]
                + counts["low"] + counts["info"],
             hasCriticalOrHigh |-> counts["critical"] > 0 \/ counts["high"] > 0,
             vulnerabilities |-> vulnerabilities]

\* the node branch of getAuditSummary, lines 492-555
NodeSummary(audit) ==
    IF audit = NullJson \/ ~audit.vulnerabilities.present
    THEN EmptySummary
    ELSE LET counts == NodeCounts(audit)
             vulnerabilities == NodeLoop(audit.vulnerabilities.entries, <<>>)
         IN [counts |-> counts,
             totalVulnerabilities |-> Len(vulnerabilities),
             hasCriticalOrHigh |-> counts["critical"] > 0 \/ counts["high"] > 0,
             vulnerabilities |-> vulnerabilities]

Returned(v) == [ok |-> TRUE, value |-> v]
Thrown(e) == [ok |-> FALSE, error |-> e]

getAuditSummaryNeverThrows(env) ==
    LET projectType == detectProjectType(env.files)
    IN IF projectType = "python"
       THEN LET pipAudit == runPipAudit(env.files, env.pip)
            IN IF pipAudit # NullJson
               THEN Returned(normalizePipAuditToSummary(pipAudit))
               ELSE Returned(EmptySummary)
       ELSE IF projectType # "node" THEN Returned(EmptySummary)
       ELSE Returned(NodeSummary(runAudit(env.files, env.npm)))

\* getAuditSummary on a project root: env.files are the manifests present,
\* env.npm and env.pip the outcomes of the scanner processes if they are run.
getAuditSummary(env) ==
    LET projectType == detectProjectType(env.files)
    IN IF projectType = "python"
       THEN LET pipAudit == runPipAudit(env.files, env.pip)
            IN IF pipAudit # NullJson
               THEN Returned(normalizePipAuditToSummary(pipAudit))
               ELSE Thrown("Python project detected but audit failed")
       ELSE IF projectType # "node" THEN Returned(EmptySummary)
       ELSE Returned(NodeSummary(runAudit(env.files, env.npm)))

-----------------------------------------------------------------------------
(* Decision derivation *)

ShipReadinessNoFindings(summary) ==
    [safeToShip |-> summary.totalVulnerabilities = 0,
     reason |-> IF summary.totalVulnerabilities = 0
                THEN "No known vulnerabilities were found"
                ELSE "Do not ship until these are addressed",
     quoted |-> IF summary.totalVulnerabilities = 0 THEN <<>>
                ELSE <<summary.counts["critical"], summary.counts["high"]>>,
     critical |-> summary.counts["critical"], high |-> summary.counts["high"],
     moderate |-> summary.counts["moderate"], low |-> summary.counts["low"],
     recommendation |-> "Keep running security checks regularly."]

ShipReadinessByCounts(summary) ==
    LET critical == summary.counts["critical"]
        high == summary.counts["high"]
        moderate == summary.counts["moderate"]
        low == summary.counts["low"]
        safeToShip == ~summary.hasCriticalOrHigh
        none == critical + high + moderate + low = 0
    IN [safeToShip |-> safeToShip,
        reason |-> IF none THEN "No known vulnerabilities were found"
                   ELSE IF safeToShip
                        THEN "There are no critical or high severity issues"
                        ELSE "Do not ship until these are addressed",
        quoted |-> IF none THEN <<>>
                   ELSE IF safeToShip THEN <<moderate, low>>
                        ELSE <<critical, high>>,
        critical |-> critical, high |-> high, moderate |-> moderate, low |-> low,
        recommendation |->
            IF none THEN "Keep running security checks regularly."
            ELSE IF safeToShip THEN "Run the suggest_upgrades tool"
                 ELSE "Use suggest_upgrades, then re-check with is_app_safe_to_ship"]

ShipReadinessFromList(summary) ==
    LET Listed(s) == Cardinality({i \in DOMAIN summary.vulnerabilities :
                                     summary.vulnerabilities[i].severity = s})
        critical == summary.counts["critical"]
        high == summary.counts["high"]
        moderate == Listed("moderate")
        low == Listed("low")
        safeToShip == ~summary.hasCriticalOrHigh
    IN [safeToShip |-> safeToShip,
        reason |-> IF safeToShip /\ summary.totalVulnerabilities = 0
                   THEN "No known vulnerabilities were found"
                   ELSE IF safeToShip
                        THEN "There are no critical or high severity issues"
                        ELSE "Do not ship until these are addressed",
        quoted |-> IF safeToShip /\ summary.totalVulnerabilities = 0 THEN <<>>
                   ELSE IF safeToShip THEN <<moderate, low>>
                        ELSE <<critical, high>>,
        critical |-> critical, high |-> high, moderate |-> moderate, low |-> low,
        recommendation |->
            IF safeToShip /\ summary.totalVulnerabilities = 0
            THEN "Keep running security checks regularly."
            ELSE IF safeToShip THEN "Run the suggest_upgrades tool"
                 ELSE "Use suggest_upgrades, then re-check with is_app_safe_to_ship"]

\* getShipReadiness on the result of getAuditSummary; reason names the
\* template chosen, the counts it quotes are the fields critical..low.
ShipReadinessOf(summary) ==
    LET critical == summary.counts["critical"]
        high == summary.counts["high"]
        moderate == summary.counts["moderate"]
        low == summary.counts["low"]
        safeToShip == ~summary.hasCriticalOrHigh
    IN [safeToShip |-> safeToShip,
        reason |-> IF safeToShip /\ summary.totalVulnerabilities = 0
                   THEN "No known vulnerabilities were found"
                   ELSE IF safeToShip
                        THEN "There are no critical or high severity issues"
                        ELSE "Do not ship until these are addressed",
        quoted |-> IF safeToShip /\ summary.totalVulnerabilities = 0 THEN <<>>
                   ELSE IF safeToShip THEN <<moderate, low>>
                        ELSE <<critical, high>>,
        critical |-> critical, high |-> high, moderate |-> moderate, low |-> low,
        recommendation |->
            IF safeToShip /\ summary.totalVulnerabilities = 0
            THEN "Keep running security checks regularly."
            ELSE IF safeToShip THEN "Run the suggest_upgrades tool"
                 ELSE "Use suggest_upgrades, then re-check with is_app_safe_to_ship"]

getShipReadiness(env) ==
    LET r == getAuditSummary(env)
    IN IF r.ok THEN Returned(ShipReadinessOf(r.value)) ELSE r

-----------------------------------------------------------------------------
(* Ranking: getHighestRiskDependency and getUpgradeSuggestions *)

\* SEVERITY_SCORE[severity] ?? 0
Score(severity) ==
    IF severity \in DOMAIN SEVERITY_SCORE THEN SEVERITY_SCORE[severity] ELSE 0

RECURSIVE InsertBeforeEqual(_, _)
InsertBeforeEqual(sorted, x) ==
    IF sorted = <<>> THEN <<x>>
    ELSE IF Score(Head(sorted).severity) > Score(x.severity)
         THEN <<Head(sorted)>> \o InsertBeforeEqual(Tail(sorted), x)
         ELSE <<x>> \o sorted

\* x placed behind every element of sorted whose score is at least its own
RECURSIVE InsertByScore(_, _)
InsertByScore(sorted, x) ==
    IF sorted = <<>> THEN <<x>>
    ELSE IF Score(Head(sorted).severity) >= Score(x.severity)
         THEN <<Head(sorted)>> \o InsertByScore(Tail(sorted), x)
         ELSE <<x>> \o sorted

\* Array.prototype.sort with the comparator score(b) - score(a): a stable
\* sort (ECMAScript 2019), highest score first
RECURSIVE SortByScore(_)
SortByScore(list) ==
    IF list = <<>> THEN <<>>
    ELSE InsertByScore(SortByScore(SubSeq(list, 1, Len(list) - 1)), list[Len(list)])

\* the text of getHighestRiskDependency as the values it interpolates
HighestRiskText(highest) ==
    IF highest = NullJson THEN [template |-> "No vulnerabilities found in this codebase."]
    ELSE [template |-> "Highest risk",
          name |-> highest.name,
          severity |-> highest.severity,
          text |-> Coalesce(highest.title, Coalesce(highest.description, "No description.")),
          fix |-> IF Truthy(highest.fixAvailable) THEN highest.fixAvailable ELSE ""]

HighestRiskOf(summary) ==
    LET sorted == SortByScore(summary.vulnerabilities)
        highest == IF sorted = <<>> THEN NullJson ELSE sorted[1]
    IN [highest |-> highest, summary |-> HighestRiskText(highest), allBySeverity |-> sorted]

getHighestRiskDependency(env) ==
    LET r == getAuditSummary(env)
    IN IF r.ok THEN Returned(HighestRiskOf(r.value)) ELSE r

UpgradeSuggestion(v, isPip) ==
    LET target == IF IsString(v.fixAvailable) THEN v.fixAvailable ELSE "latest"
    IN [package |-> v.name,
        current |-> Coalesce(v.range, "unknown"),
        target |-> target,
        severity |-> v.severity,
        action |-> IF isPip THEN "pip install " \o v.name \o "==" \o target
                   ELSE "npm install " \o v.name \o "@" \o target,
        isSemverCompatible |-> Undefined]

RECURSIVE UpgradeLoopKeepAll(_, _, _, _)
UpgradeLoopKeepAll(vulnerabilities, isPip, seen, suggestions) ==
    IF vulnerabilities = <<>> THEN suggestions
    ELSE LET v == Head(vulnerabilities)
         IN IF ~Truthy(v.fixAvailable)
            THEN UpgradeLoopKeepAll(Tail(vulnerabilities), isPip, seen, suggestions)
            ELSE UpgradeLoopKeepAll(Tail(vulnerabilities), isPip, seen \cup {v.name},
                                    Append(suggestions, UpgradeSuggestion(v, isPip)))

RECURSIVE UpgradeLoopBlocking(_, _, _, _)
UpgradeLoopBlocking(vulnerabilities, isPip, seen, suggestions) ==
    IF vulnerabilities = <<>> THEN suggestions
    ELSE LET v == Head(vulnerabilities)
         IN IF ~Truthy(v.fixAvailable) \/ v.name \in seen
            THEN UpgradeLoopBlocking(Tail(vulnerabilities), isPip, seen \cup {v.name},
                                     suggestions)
            ELSE UpgradeLoopBlocking(Tail(vulnerabilities), isPip, seen \cup {v.name},
                                     Append(suggestions, UpgradeSuggestion(v, isPip)))

\* the loop over audit.vulnerabilities, with the set seen of package names
RECURSIVE UpgradeLoop(_, _, _, _)
UpgradeLoop(vulnerabilities, isPip, seen, suggestions) ==
    IF vulnerabilities = <<>> THEN suggestions
    ELSE LET v == Head(vulnerabilities)
         IN IF ~Truthy(v.fixAvailable) \/ v.name \in seen
            THEN UpgradeLoop(Tail(vulnerabilities), isPip, seen, suggestions)
            ELSE UpgradeLoop(Tail(vulnerabilities), isPip, seen \cup {v.name},
                             Append(suggestions, UpgradeSuggestion(v, isPip)))

UpgradeSuggestionsOf(projectType, audit) ==
    LET suggestions == SortByScore(UpgradeLoop(audit.vulnerabilities,
                                               projectType = "python", {}, <<>>))
    IN [suggestions |-> suggestions,
        summary |-> IF suggestions = <<>> THEN [template |-> "No upgrade fixes available"]
                    ELSE [template |-> "Apply these upgrades in order of priority",
                          count |-> Len(suggestions)]]

getUpgradeSuggestions(env) ==
    LET projectType == detectProjectType(env.files)
        r == getAuditSummary(env)
    IN IF r.ok THEN Returned(UpgradeSuggestionsOf(projectType, r.value)) ELSE r

\* one line of getVulnerabilitiesSummary, as the values it interpolates
VulnerabilityLine(v) ==
    [name |-> v.name,
     title |-> Coalesce(v.title, "Vulnerability"),
     dependency |-> IF Truthy(v.isDirect) THEN "direct dependency" ELSE "transitive",
     fix |-> IF Truthy(v.fixAvailable) THEN v.fixAvailable ELSE ""]

RECURSIVE LinesOf(_, _)
LinesOf(vulnerabilities, severity) ==
    IF vulnerabilities = <<>> THEN <<>>
    ELSE (IF Head(vulnerabilities).severity = severity
          THEN <<VulnerabilityLine(Head(vulnerabilities))>> ELSE <<>>)
         \o LinesOf(Tail(vulnerabilities), severity)

RECURSIVE SeverityPartsMoreFromTen(_, _)
SeverityPartsMoreFromTen(bySeverity, i) ==
    IF i > Len(SEVERITY_ORDER) THEN <<>>
    ELSE LET list == bySeverity[SEVERITY_ORDER[i]]
         IN (IF list = <<>> THEN <<>>
             ELSE <<[heading |-> SEVERITY_ORDER[i], count |-> Len(list)]>>
                  \o SubSeq(list, 1, Min(Len(list), 10))
                  \o (IF Len(list) >= 10 THEN <<[more |-> Len(list) - 10]>> ELSE <<>>))
            \o SeverityPartsMoreFromTen(bySeverity, i + 1)

\* the parts pushed for the severities from position i of SEVERITY_ORDER on
RECURSIVE SeverityParts(_, _)
SeverityParts(bySeverity, i) ==
    IF i > Len(SEVERITY_ORDER) THEN <<>>
    ELSE LET list == bySeverity[SEVERITY_ORDER[i]]
         IN (IF list = <<>> THEN <<>>
             ELSE <<[heading |-> SEVERITY_ORDER[i], count |-> Len(list)]>>
                  \o SubSeq(list, 1, Min(Len(list), 10))
                  \o (IF Len(list) > 10 THEN <<[more |-> Len(list) - 10]>> ELSE <<>>))
            \o SeverityParts(bySeverity, i + 1)

VulnerabilitiesSummaryOf(audit) ==
    LET bySeverity == [s \in Severities |-> LinesOf(audit.vulnerabilities, s)]
    IN [summary |->
            IF audit.totalVulnerabilities = 0
            THEN <<[text |-> "No vulnerabilities were found in your dependencies."]>>
            ELSE <<[text |-> "Your project has vulnerability findings",
                    total |-> audit.totalVulnerabilities]>>
                 \o SeverityParts(bySeverity, 1)
                 \o <<[text |-> "Use suggest_upgrades to get exact commands to fix them."]>>,
        bySeverity |-> bySeverity,
        total |-> audit.totalVulnerabilities]

getVulnerabilitiesSummary(env) ==
    LET r == getAuditSummary(env)
    IN IF r.ok THEN Returned(VulnerabilitiesSummaryOf(r.value)) ELSE r

-----------------------------------------------------------------------------
(* Target identity. Parsed text is a sequence of one-character strings. *)

Letters ==
    {"a", "b", "c", "d", "e", "f", "g", "h", "i", "j", "k", "l", "m", "n", "o", "p",
     "q", "r", "s", "t", "u", "v", "w", "x", "y", "z",
     "A", "B", "C", "D", "E", "F", "G", "H", "I", "J", "K", "L", "M", "N", "O", "P",
     "Q", "R", "S", "T", "U", "V", "W", "X", "Y", "Z"}

Digits == {"0", "1", "2", "3", "4", "5", "6", "7", "8", "9"}

\* \w and [-.\w]
WordChars == Letters \cup Digits \cup {"_"}
NameChars == WordChars \cup {"-", "."}

WhiteSpace == {" ", "\t", "\n"}

\* the text of an absent optional argument
Absent == <<"<undefined>">>

RECURSIVE TrimStart(_)
TrimStart(s) ==
    IF s # <<>> /\ Head(s) \in WhiteSpace THEN TrimStart(Tail(s)) ELSE s

RECURSIVE TrimEnd(_)
TrimEnd(s) ==
    IF s # <<>> /\ s[Len(s)] \in WhiteSpace THEN TrimEnd(SubSeq(s, 1, Len(s) - 1))
    ELSE s

\* String.prototype.trim
Trim(s) == TrimEnd(TrimStart(s))

\* s has sub at position i (1-based)
HasAt(s, sub, i) ==
    i >= 1 /\ i + Len(sub) - 1 <= Len(s) /\ SubSeq(s, i, i + Len(sub) - 1) = sub

\* String.prototype.includes
Includes(s, sub) == \E i \in 1..(Len(s) + 1) : HasAt(s, sub, i)

\* s.replace(/\.git$/, '')
DotGit == <<".", "g", "i", "t">>

StripDotGit(s) ==
    IF HasAt(s, DotGit, Len(s) - 3) THEN SubSeq(s, 1, Len(s) - 4) ELSE s

\* the longest run of characters of chars in s from position i: its end + 1
RECURSIVE RunEnd(_, _, _)
RunEnd(s, i, chars) ==
    IF i <= Len(s) /\ s[i] \in chars THEN RunEnd(s, i + 1, chars) ELSE i

GitHubCom == <<"g", "i", "t", "h", "u", "b", ".", "c", "o", "m">>

\* /github\.com[/:](\w(?:[-.\w])*)\/(\w(?:[-.\w])*)/ tried at position i:
\* both groups are greedy and the owner's run can only be followed by "/".
MatchAt(s, i) ==
    LET o == i + Len(GitHubCom) + 1
        oEnd == RunEnd(s, o, NameChars)
        r == oEnd + 1
        rEnd == RunEnd(s, r, NameChars)
    IN IF /\ HasAt(s, GitHubCom, i)
          /\ o - 1 <= Len(s) /\ s[o - 1] \in {"/", ":"}
          /\ o <= Len(s) /\ s[o] \in WordChars
          /\ oEnd <= Len(s) /\ s[oEnd] = "/"
          /\ r <= Len(s) /\ s[r] \in WordChars
       THEN [matched |-> TRUE, owner |-> SubSeq(s, o, oEnd - 1),
             repo |-> SubSeq(s, r, rEnd - 1)]
       ELSE [matched |-> FALSE]

\* String.prototype.match: the leftmost position where the pattern matches
RECURSIVE MatchFrom(_, _)
MatchFrom(s, i) ==
    IF i > Len(s) THEN [matched |-> FALSE]
    ELSE IF MatchAt(s, i).matched THEN MatchAt(s, i)
    ELSE MatchFrom(s, i + 1)

\* s.split('/'): the pieces between the separators
RECURSIVE Split(_, _)
Split(s, sep) ==
    LET e == RunEnd(s, 1, {c \in Range(s) : c # sep})
    IN IF e > Len(s) THEN <<s>>
       ELSE <<SubSeq(s, 1, e - 1)>> \o Split(SubSeq(s, e + 1, Len(s)), sep)

parseGitHubRepoLenient(spec) ==
    LET trimmed == StripDotGit(Trim(spec))
    IN IF Includes(trimmed, GitHubCom \o <<"/">>)
       THEN LET match == MatchFrom(trimmed, 1)
            IN IF ~match.matched THEN Returned([owner |-> trimmed, repo |-> trimmed])
               ELSE Returned([owner |-> match.owner, repo |-> match.repo])
       ELSE IF Includes(trimmed, <<"/">>)
       THEN LET parts == Split(trimmed, "/")
            IN Returned([owner |-> Trim(parts[1]), repo |-> Trim(parts[2])])
       ELSE Returned([owner |-> trimmed, repo |-> trimmed])

\* parseGitHubRepo
parseGitHubRepo(spec) ==
    LET trimmed == StripDotGit(Trim(spec))
    IN IF Includes(trimmed, GitHubCom \o <<"/">>)
       THEN LET match == MatchFrom(trimmed, 1)
            IN IF ~match.matched THEN Thrown("Invalid GitHub URL")
               ELSE Returned([owner |-> match.owner, repo |-> match.repo])
       ELSE IF Includes(trimmed, <<"/">>)
       THEN LET parts == Split(trimmed, "/")
                owner == Trim(parts[1])
                repo == Trim(parts[2])
            IN IF owner = <<>> \/ repo = <<>> THEN Thrown("Invalid GitHub repo")
               ELSE Returned([owner |-> owner, repo |-> repo])
       ELSE Thrown("Invalid GitHub repo: use owner/repo or full GitHub URL")

\* subpath.replace(/^\/|\/$/g, ''): one leading and one trailing separator
StripSlashes(s) ==
    LET a == IF s # <<>> /\ Head(s) = "/" THEN Tail(s) ELSE s
    IN IF a # <<>> /\ a[Len(a)] = "/" THEN SubSeq(a, 1, Len(a) - 1) ELSE a

\* the working directory of the process
Cwd == <<"/", "w", "o", "r", "k">>

\* path.resolve(Cwd, p): the segments of p applied to the root or to Cwd
RECURSIVE ApplySegments(_, _)
ApplySegments(stack, segs) ==
    IF segs = <<>> THEN stack
    ELSE LET g == Head(segs)
         IN IF g = <<>> \/ g = <<".">> THEN ApplySegments(stack, Tail(segs))
            ELSE IF g = <<".", ".">>
                 THEN ApplySegments(IF stack = <<>> THEN stack
                                    ELSE SubSeq(stack, 1, Len(stack) - 1), Tail(segs))
                 ELSE ApplySegments(Append(stack, g), Tail(segs))

RECURSIVE JoinPath(_)
JoinPath(stack) ==
    IF stack = <<>> THEN <<>> ELSE <<"/">> \o Head(stack) \o JoinPath(Tail(stack))

resolve(p) ==
    LET base == IF p # <<>> /\ Head(p) = "/" THEN <<>>
                ELSE ApplySegments(<<>>, Split(Cwd, "/"))
        stack == ApplySegments(base, Split(p, "/"))
    IN IF stack = <<>> THEN <<"/">> ELSE JoinPath(stack)

getRepoIdWithRef(options) ==
    IF options.githubRepo # Absent /\ options.githubRepo # <<>>
    THEN LET parsed == parseGitHubRepo(options.githubRepo)
         IN IF ~parsed.ok THEN parsed
            ELSE LET base == parsed.value.owner \o <<"/">> \o parsed.value.repo
                     sub == IF options.subpath = Absent THEN <<>>
                            ELSE StripSlashes(options.subpath)
                     at == IF options.ref = Absent THEN <<>> ELSE <<"@">> \o options.ref
                 IN Returned((IF sub # <<>> THEN base \o <<":">> \o sub ELSE base) \o at)
    ELSE LET path == IF options.projectPath # Absent /\ options.projectPath # <<>>
                     THEN resolve(options.projectPath) ELSE Cwd
         IN Returned(<<"l", "o", "c", "a", "l", ":">> \o path)

\* getRepoId
getRepoId(options) ==
    IF options.githubRepo # Absent /\ options.githubRepo # <<>>
    THEN LET parsed == parseGitHubRepo(options.githubRepo)
         IN IF ~parsed.ok THEN parsed
            ELSE LET base == parsed.value.owner \o <<"/">> \o parsed.value.repo
                     sub == IF options.subpath = Absent THEN <<>>
                            ELSE StripSlashes(options.subpath)
                 IN Returned(IF sub # <<>> THEN base \o <<":">> \o sub ELSE base)
    ELSE LET path == IF options.projectPath # Absent /\ options.projectPath # <<>>
                     THEN resolve(options.projectPath) ELSE Cwd
         IN Returned(<<"l", "o", "c", "a", "l", ":">> \o path)

-----------------------------------------------------------------------------
(* Sample scanner documents *)

PrototypePollution == [kind |-> "string", text |-> "Prototype Pollution"]

\* an entry of npm audit's vulnerabilities map
NpmEntry(name, severity, fixAvailable) ==
    [name |-> name,
     v |-> [severity |-> severity,
            via |-> [kind |-> "array", items |-> <<PrototypePollution>>],
            isDirect |-> JSTrue, range |-> "<4.17.21",
            fixAvailable |-> fixAvailable]]

NoFix == [type |-> "undefined"]
FixFlag == [type |-> "boolean", value |-> JSTrue]
FixVersion == [type |-> "object", version |-> "4.17.21"]

\* an npm audit report
NpmReport(entries, meta) ==
    [vulnerabilities |-> [present |-> TRUE, entries |-> entries],
     metadata |-> [present |-> TRUE, vulnerabilities |-> meta]]

\* npm audit exits 1 when it reports vulnerabilities, 0 when it reports none
NpmRun(report) ==
    [status |-> IF report.vulnerabilities.entries = <<>> THEN "ok" ELSE "error",
     stdout |-> Json(report)]

NpmNotInstalled == [status |-> "error", stdout |-> NoText]
PipNotInstalled == [first |-> NoText, second |-> NoText]

MetaOfEntries(entries) ==
    [s \in Severities |-> Cardinality({i \in DOMAIN entries : entries[i].v.severity = s})]

NodeEnv(entries) ==
    [files |-> {"package.json"}, npm |-> NpmRun(NpmReport(entries, MetaOfEntries(entries))),
     pip |-> PipNotInstalled]

PipDep(name, vulns) ==
    [name |-> name, version |-> "2.0.0", vulns |-> [present |-> TRUE, items |-> vulns]]

PipVuln(id, known_severity, fix_versions) ==
    [id |-> id, fix_versions |-> fix_versions, description |-> "Denial of service",
     known_severity |-> known_severity]

PipArray(deps) == [shape |-> "array", items |-> deps]

PythonEnv(deps) ==
    [files |-> {"requirements.txt"}, npm |-> NpmNotInstalled,
     pip |-> [first |-> Json(PipArray(deps)), second |-> NoText]]

Lodash == NpmEntry("lodash", "high", FixVersion)
Express == NpmEntry("express", "critical", FixFlag)
Minimist == NpmEntry("minimist", "low", NoFix)

\* What a scan may find in the request specifications: node projects with
\* zero to two findings, a python project with two findings for one package,
\* and a python project whose scanner is missing.
ScanEnvs ==
    {NodeEnv(<<>>), NodeEnv(<<Lodash>>), NodeEnv(<<Express, Minimist>>),
     PythonEnv(<<PipDep("django", <<PipVuln("PYSEC-1", "HIGH", <<"4.2.1">>),
                                     PipVuln("PYSEC-2", "HIGH", <<>>)>>)>>),
     [files |-> {"pyproject.toml"}, npm |-> NpmNotInstalled, pip |-> PipNotInstalled]}

-----------------------------------------------------------------------------
(* Tool requests (security-assistant.tools.ts) *)

AcmeWidgets == <<"a", "c", "m", "e", "/", "w", "i", "d", "g", "e", "t", "s">>
AcmeWidgetsHost == GitHubCom \o <<"/">> \o AcmeWidgets
AcmeWidgetsUrl == <<"h", "t", "t", "p", "s", ":", "/", "/">> \o AcmeWidgetsHost \o DotGit
Frontend == <<"f", "r", "o", "n", "t", "e", "n", "d", "/">>
SrvApp == <<"/", "s", "r", "v", "/", "a", "p", "p">>
Dev == <<"d", "e", "v">>

Target(projectPath, githubRepo, ref, subpath) ==
    [projectPath |-> projectPath, githubRepo |-> githubRepo, ref |-> ref,
     subpath |-> subpath]

Idle == [pc |-> "idle"]

NoEvent == [event |-> "none"]

Slots == {1, 2}

IsRemote(args) == args.githubRepo # Absent /\ args.githubRepo # <<>>

\* requests start in the lowest free slot
FreeSlot(slot) ==
    /\ reqs[slot] = Idle
    /\ \A other \in Slots : other < slot => reqs[other] # Idle

\* compareScansOverTime (tools.ts 173-180) up to its first await: getRepoId,
\* then withResolvedProject calls resolveProjectRoot, which for a remote
\* target parses the reference again and awaits checkRepoAccess, and for a
\* local one returns { path } at once.
Begin(slot, args) ==
    /\ FreeSlot(slot)
    /\ started' = started + 1
    /\ LET repoId == getRepoId(args)
       IN IF ~repoId.ok
          THEN /\ reqs' = reqs
               /\ last' = [event |-> "failed", id |-> started + 1, stage |-> "getRepoId",
                           error |-> repoId.error]
          ELSE /\ reqs' = [reqs EXCEPT ![slot] =
                             [pc |-> IF IsRemote(args) THEN "checkRepoAccess"
                                     ELSE "resolved",
                              tool |-> "compare_scans_over_time",
                              id |-> started + 1, args |-> args,
                              repoId |-> repoId.value, tmpDir |-> 0, files |-> {}]]
               /\ last' = last
    /\ UNCHANGED <<scanStore, clock, tmpDirs, world, changes, history, input, output>>

\* prepareProjectFromGitHub 261-264: checkRepoAccess answers; on success the
\* temporary directory is made, on failure the request is rejected.
CheckRepoAccess(slot, accessible) ==
    /\ reqs[slot].pc = "checkRepoAccess"
    /\ IF accessible
       THEN /\ tmpDirs' = tmpDirs \cup {reqs[slot].id}
            /\ reqs' = [reqs EXCEPT ![slot].pc = "fetching", ![slot].tmpDir = reqs[slot].id]
            /\ last' = last
       ELSE /\ tmpDirs' = tmpDirs
            /\ reqs' = [reqs EXCEPT ![slot] = Idle]
            /\ last' = [event |-> "failed", id |-> reqs[slot].id,
                        stage |-> "checkRepoAccess", error |-> "GitHub API"]
    /\ UNCHANGED <<scanStore, clock, world, started, changes, history, input, output>>

\* The manifest that prepareProjectFromGitHub stages from a repository whose
\* manifests are files: package.json first, then requirements.txt, then
\* pyproject.toml.
Staged(files) ==
    IF "package.json" \in files THEN {"package.json"}
    ELSE IF "requirements.txt" \in files THEN {"requirements.txt"}
    ELSE IF "pyproject.toml" \in files THEN {"pyproject.toml"}
    ELSE {}

\* prepareProjectFromGitHub 274-320: the fetches and the lockfile. fetchOk is
\* whether every fetch answered, lockOk whether a lockfile was fetched or
\* generated. Every failure runs cleanup() before the error leaves.
FetchProject(slot, fetchOk, lockOk) ==
    /\ reqs[slot].pc = "fetching"
    /\ LET staged == Staged(world.files)
           error == IF ~fetchOk THEN "GitHub API"
                    ELSE IF staged = {} THEN "No supported project found"
                    ELSE IF staged = {"package.json"} /\ ~lockOk
                         THEN "Generating lockfile failed"
                         ELSE "none"
       IN IF error = "none"
          THEN /\ reqs' = [reqs EXCEPT ![slot].pc = "resolved", ![slot].files = staged]
               /\ tmpDirs' = tmpDirs
               /\ last' = last
          ELSE /\ reqs' = [reqs EXCEPT ![slot] = Idle]
               /\ tmpDirs' = tmpDirs \ {reqs[slot].tmpDir}
               /\ last' = [event |-> "failed", id |-> reqs[slot].id,
                           stage |-> "prepareProjectFromGitHub", error |-> error]
    /\ UNCHANGED <<scanStore, clock, world, started, changes, history, input, output>>

\* what the scanners find at the resolved root of a request
EnvOf(req) ==
    [files |-> IF IsRemote(req.args) THEN req.files ELSE world.files,
     npm |-> world.npm, pip |-> world.pip]

CleanupSkipped(dirs, req) == dirs

\* resolved.cleanup?.()
Cleanup(dirs, req) == IF req.tmpDir = 0 THEN dirs ELSE dirs \ {req.tmpDir}

\* The store as the callback of a request reads it: as it is in the turn of
\* the event loop that also writes it.
StoreSeenEarlier(slot) ==
    LET k == reqs[slot].repoId
        list == StoreGet(scanStore, k)
    IN IF /\ Len(list) > 0
          /\ \E other \in Slots \ {slot} :
                reqs[other].pc = "returned" /\ reqs[other].repoId = k
       THEN StoreSet(scanStore, k, SubSeq(list, 1, Len(list) - 1))
       ELSE scanStore

StoreSeen(slot) == scanStore

\* The callback of compareScansOverTime (tools.ts 181-189) inside
\* withResolvedProject's try: getAuditSummary, detectProjectType and
\* compareScansOverTime run without an await between them. When
\* getAuditSummary throws, the finally block cleans up in the same turn.
Compare(slot) ==
    /\ reqs[slot].pc = "resolved"
    /\ reqs[slot].tool = "compare_scans_over_time"
    /\ LET req == reqs[slot]
           env == EnvOf(req)
           summary == getAuditSummary(env)
           projectType == detectProjectType(env.files)
       IN IF ~summary.ok
          THEN /\ reqs' = [reqs EXCEPT ![slot] = Idle]
               /\ tmpDirs' = Cleanup(tmpDirs, req)
               /\ last' = [event |-> "failed", id |-> req.id,
                           stage |-> "getAuditSummary", error |-> summary.error]
               /\ UNCHANGED <<scanStore, clock, history>>
          ELSE LET now == clock + 1
                   call == compareScansOverTime(StoreSeen(slot), req.repoId, summary.value,
                              [ref |-> req.args.ref, subpath |-> req.args.subpath,
                               projectType |-> IF projectType = JSNull THEN Undefined
                                               ELSE projectType], now)
               IN /\ scanStore' = call.store
                  /\ clock' = now
                  /\ history' = StoreSet(history, req.repoId,
                                   Append(StoreGet(history, req.repoId),
                                          [scan |-> call.scan,
                                           previousId |-> call.previous.id]))
                  /\ reqs' = [reqs EXCEPT ![slot].pc = "returned"]
                  /\ tmpDirs' = tmpDirs
                  /\ last' = [event |-> "compared", id |-> req.id, repoId |-> req.repoId,
                              args |-> req.args, summary |-> summary.value,
                              previous |-> call.previous, scan |-> call.scan,
                              result |-> call.result]
    /\ UNCHANGED <<world, started, changes, input, output>>

\* withResolvedProject's finally block after the callback's value was awaited
Finally(slot) ==
    /\ reqs[slot].pc = "returned"
    /\ tmpDirs' = Cleanup(tmpDirs, reqs[slot])
    /\ reqs' = [reqs EXCEPT ![slot] = Idle]
    /\ UNCHANGED <<scanStore, clock, world, started, changes, history, last, input,
                   output>>

\* the tools whose callback is one service call on the resolved path
CallbackTools ==
    {"is_app_safe_to_ship", "get_highest_risk_dependency", "summarize_vulnerabilities",
     "suggest_upgrades"}

ToolResult(tool, env) ==
    IF tool = "is_app_safe_to_ship" THEN getShipReadiness(env)
    ELSE IF tool = "get_highest_risk_dependency" THEN getHighestRiskDependency(env)
    ELSE IF tool = "summarize_vulnerabilities" THEN getVulnerabilitiesSummary(env)
    ELSE getUpgradeSuggestions(env)

\* One of the four other tools up to its first await: withResolvedProject
\* calls resolveProjectRoot, which for a remote target parses the reference
\* (and is rejected if that throws) and awaits checkRepoAccess.
BeginTool(slot, tool, args) ==
    /\ FreeSlot(slot)
    /\ started' = started + 1
    /\ IF IsRemote(args) /\ ~parseGitHubRepo(args.githubRepo).ok
       THEN /\ reqs' = reqs
            /\ last' = [event |-> "failed", id |-> started + 1,
                        stage |-> "resolveProjectRoot",
                        error |-> parseGitHubRepo(args.githubRepo).error]
       ELSE /\ reqs' = [reqs EXCEPT ![slot] =
                          [pc |-> IF IsRemote(args) THEN "checkRepoAccess"
                                  ELSE "resolved",
                           tool |-> tool,
                           id |-> started + 1, args |-> args,
                           repoId |-> <<>>, tmpDir |-> 0, files |-> {}]]
            /\ last' = last
    /\ UNCHANGED <<scanStore, clock, tmpDirs, world, changes, history, input, output>>

RunToolSavesScan(slot) ==
    /\ reqs[slot].pc = "resolved"
    /\ reqs[slot].tool \in CallbackTools
    /\ LET req == reqs[slot]
           result == ToolResult(req.tool, EnvOf(req))
       IN IF ~result.ok
          THEN /\ reqs' = [reqs EXCEPT ![slot] = Idle]
               /\ tmpDirs' = Cleanup(tmpDirs, req)
               /\ last' = [event |-> "failed", id |-> req.id,
                           stage |-> "getAuditSummary", error |-> result.error]
               /\ scanStore' = scanStore
          ELSE /\ reqs' = [reqs EXCEPT ![slot].pc = "returned"]
               /\ tmpDirs' = tmpDirs
               /\ last' = [event |-> "answered", id |-> req.id, tool |-> req.tool,
                           args |-> req.args, result |-> result.value]
               /\ scanStore' = StoreSet(scanStore, req.repoId,
                                   Append(StoreGet(scanStore, req.repoId), [id |-> req.id]))
    /\ UNCHANGED <<clock, world, started, changes, history, input, output>>

\* The callback of such a tool inside withResolvedProject's try. When it
\* throws, the finally block cleans up in the same turn.
RunTool(slot) ==
    /\ reqs[slot].pc = "resolved"
    /\ reqs[slot].tool \in CallbackTools
    /\ LET req == reqs[slot]
           result == ToolResult(req.tool, EnvOf(req))
       IN IF ~result.ok
          THEN /\ reqs' = [reqs EXCEPT ![slot] = Idle]
               /\ tmpDirs' = Cleanup(tmpDirs, req)
               /\ last' = [event |-> "failed", id |-> req.id,
                           stage |-> "getAuditSummary", error |-> result.error]
          ELSE /\ reqs' = [reqs EXCEPT ![slot].pc = "returned"]
               /\ tmpDirs' = tmpDirs
               /\ last' = [event |-> "answered", id |-> req.id, tool |-> req.tool,
                           args |-> req.args, result |-> result.value]
    /\ UNCHANGED <<scanStore, clock, world, started, changes, history, input, output>>

\* the scanned project, or what the scanners know about it, changes
Change(env) ==
    /\ env # world
    /\ world' = env
    /\ changes' = changes + 1
    /\ UNCHANGED <<scanStore, clock, reqs, tmpDirs, started, history, last, input,
                   output>>

-----------------------------------------------------------------------------
(* Specification of the tool requests: a few requests on several targets *)

MaxRequests == 2
MaxChanges == 1

Widgets == <<"w", "i", "d", "g", "e", "t", "s">>

\* the same repository in two spellings and on two refs, a local project,
\* and a reference with no owner
Targets ==
    {Target(Absent, AcmeWidgets, Absent, Absent),
     Target(Absent, AcmeWidgetsUrl, Dev, Absent),
     Target(SrvApp, Absent, Absent, Absent),
     Target(Absent, Widgets, Absent, Absent)}

None == [op |-> "none"]

InitService ==
    /\ scanStore = <<>>
    /\ clock = 0
    /\ reqs = [slot \in Slots |-> Idle]
    /\ tmpDirs = {}
    /\ started = 0
    /\ changes = 0
    /\ history = <<>>
    /\ last = NoEvent

InitRequests ==
    /\ InitService
    /\ input = None
    /\ output = None

Init ==
    /\ InitRequests
    /\ world \in ScanEnvs

BeginRequest == \E slot \in Slots, args \in Targets :
    started < MaxRequests /\ Begin(slot, args)

AccessAnswered == \E slot \in Slots, accessible \in BOOLEAN :
    CheckRepoAccess(slot, accessible)

ProjectFetched == \E slot \in Slots, fetchOk \in BOOLEAN, lockOk \in BOOLEAN :
    FetchProject(slot, fetchOk, lockOk)

RunCompare == \E slot \in Slots : Compare(slot)

RunFinally == \E slot \in Slots : Finally(slot)

ProjectChanges == \E env \in ScanEnvs : changes < MaxChanges /\ Change(env)

Next ==
    \/ BeginRequest
    \/ AccessAnswered
    \/ ProjectFetched
    \/ RunCompare
    \/ RunFinally
    \/ ProjectChanges

Spec == Init /\ [][Next]_vars

-----------------------------------------------------------------------------
(* Specification of a long history: many requests on one target, up to two
   of them in flight, past the retention limit. The project does not change
   meanwhile: the scans differ by their instants. *)

MaxHistoryRequests == 22

HistoryTarget == Target(Absent, AcmeWidgets, Absent, Absent)

HistoryEnvs == {NodeEnv(<<Lodash>>), NodeEnv(<<>>)}

InitHistory ==
    /\ InitRequests
    /\ world \in HistoryEnvs

BeginHistoryRequest == \E slot \in Slots :
    started < MaxHistoryRequests /\ Begin(slot, HistoryTarget)

AccessGranted == \E slot \in Slots : CheckRepoAccess(slot, TRUE)

ProjectStaged == \E slot \in Slots : FetchProject(slot, TRUE, TRUE)

NextHistory ==
    \/ BeginHistoryRequest
    \/ AccessGranted
    \/ ProjectStaged
    \/ RunCompare
    \/ RunFinally

SpecHistory == InitHistory /\ [][NextHistory]_vars

-----------------------------------------------------------------------------
(* Claims about the scan history and the comparator *)

\* the compareScansOverTime calls made so far for key k
Calls(k) == StoreGet(history, k)

Compared == last.event = "compared"

\* C1: every key's stored list holds at most 20 scans, and after n calls for
\* the key it is exactly the last min(n, 20) scans appended, unchanged and in
\* call order; every call appended one scan.
C1_Retention ==
    /\ DOMAIN scanStore = DOMAIN history
    /\ \A k \in DOMAIN scanStore :
        LET list == scanStore[k]
            n == Len(Calls(k))
        IN /\ Len(list) <= 20
           /\ Len(list) = Min(n, 20)
           /\ \A i \in 1..Len(list) : list[i] = Calls(k)[n - Len(list) + i].scan

\* C1's case: a key that got more calls than the limit and lost its oldest scans
C1_Witness ==
    \E k \in DOMAIN scanStore :
        /\ Len(Calls(k)) >= 22
        /\ Len(scanStore[k]) = 20
        /\ scanStore[k][1].id = Calls(k)[Len(Calls(k)) - 19].scan.id
        /\ scanStore[k][1].id > Calls(k)[1].scan.id

\* C2: the first call for a key returns isFirstScan = true, no fixed and no
\* introduced finding, and a baseline equal to current, which is the snapshot
\* of the summary passed in.
C2_FirstScan ==
    (Compared /\ Len(Calls(last.repoId)) = 1) =>
        /\ last.result.isFirstScan = TRUE
        /\ last.result.fixed = <<>>
        /\ last.result.introduced = <<>>
        /\ last.result.baseline = last.result.current
        /\ last.result.current.scannedAt = last.scan.scannedAt
        /\ last.result.current.counts = last.summary.counts
        /\ last.result.current.totalVulnerabilities = last.summary.totalVulnerabilities

\* C2's case: a first call whose summary has findings
C2_Witness ==
    /\ Compared
    /\ Len(Calls(last.repoId)) = 1
    /\ Len(last.summary.vulnerabilities) = 2
    /\ last.result.isFirstScan = TRUE

\* C3: a call on a key with history takes as baseline the scan appended by
\* the call before it for that key, and reports that scan's instant, counts
\* and total.
C3_BaselineIsPreceding ==
    (Compared /\ Len(Calls(last.repoId)) >= 2) =>
        LET calls == Calls(last.repoId)
            before == calls[Len(calls) - 1].scan
        IN /\ last.previous = before
           /\ last.result.baseline.scannedAt = before.scannedAt
           /\ last.result.baseline.counts = before.summary.counts
           /\ last.result.baseline.totalVulnerabilities
                = before.summary.totalVulnerabilities
           /\ last.result.isFirstScan = FALSE

\* C3's case: a call made after the limit has evicted scans
C3_Witness ==
    /\ Compared
    /\ Len(Calls(last.repoId)) = 22
    /\ last.previous.id = Calls(last.repoId)[21].scan.id
    /\ last.previous.id # scanStore[last.repoId][1].id

\* C5: a call whose summary is identical to the one stored by the preceding
\* call for the key reports no fixed and no introduced finding and a total
\* delta of 0.
C5_IdenticalSummary ==
    (/\ Compared
     /\ Len(Calls(last.repoId)) >= 2
     /\ last.summary = Calls(last.repoId)[Len(Calls(last.repoId)) - 1].scan.summary) =>
        /\ last.result.fixed = <<>>
        /\ last.result.introduced = <<>>
        /\ last.result.delta = 0
        /\ last.result.totalFixed = 0
        /\ last.result.totalIntroduced = 0

\* C5's case: the same summary with findings, twice in a row
C5_Witness ==
    /\ Compared
    /\ Len(Calls(last.repoId)) = 2
    /\ last.summary = Calls(last.repoId)[1].scan.summary
    /\ last.summary.totalVulnerabilities = 2
    /\ last.result.delta = 0

\* C6: with requests on one key interleaving, each call reads as previous the
\* scan of the call before it (so no two calls read the same one), every
\* scan appended is still stored unless the limit evicted it, and after k
\* calls the stored list has min(k, 20) scans.
C6_AtomicCompare ==
    \A k \in DOMAIN history :
        LET calls == Calls(k)
            list == StoreGet(scanStore, k)
        IN /\ \A i \in DOMAIN calls :
                calls[i].previousId = IF i = 1 THEN 0 ELSE calls[i - 1].scan.id
           /\ \A i, j \in DOMAIN calls : i # j => calls[i].previousId # calls[j].previousId
           /\ Len(list) = Min(Len(calls), 20)
           /\ \A i \in DOMAIN calls :
                i > Len(calls) - 20 => \E j \in DOMAIN list : list[j] = calls[i].scan

\* C6's case: two requests on the same key in flight together, both past
\* their compare, after the limit was reached
C6_Witness ==
    /\ reqs[1].pc = "returned"
    /\ reqs[2].pc = "returned"
    /\ reqs[1].repoId = reqs[2].repoId
    /\ Len(Calls(reqs[1].repoId)) >= 21

-----------------------------------------------------------------------------
(* Specification of diffVulnerabilities on its own: every pair of short lists
   of findings that differ in package, severity and advisory *)

MaxDiffLen == 2

PureInit ==
    /\ InitService
    /\ world = NodeEnv(<<>>)

PureUnchanged ==
    UNCHANGED <<scanStore, clock, reqs, tmpDirs, world, started, changes, history, last>>

\* a finding as the adapters list it; advisory selects its id and title
Finding(name, severity, advisory) ==
    [name |-> name, severity |-> severity, title |-> "Advisory " \o advisory,
     id |-> advisory, range |-> "<4.17.21", fixAvailable |-> "4.17.21", via |-> <<>>,
     isDirect |-> JSTrue, description |-> Undefined]

DiffFindings ==
    {Finding(name, severity, advisory) :
        name \in {"lodash", "express"}, severity \in {"high", "critical"},
        advisory \in {"GHSA-1", "GHSA-2"}}

SeqsUpTo(S, n) == UNION {[1..m -> S] : m \in 0..n}

InitDiff ==
    /\ PureInit
    /\ input \in [baseline : SeqsUpTo(DiffFindings, MaxDiffLen),
                  current : SeqsUpTo(DiffFindings, MaxDiffLen)]
    /\ output = None

RunDiff ==
    /\ output = None
    /\ output' = [op |-> "diffVulnerabilities",
                  value |-> diffVulnerabilities(input.baseline, input.current)]
    /\ UNCHANGED input
    /\ PureUnchanged

NextDiff == RunDiff

SpecDiff == InitDiff /\ [][NextDiff]_vars

SameKey(v, w) == v.name = w.name /\ v.severity = w.severity

OccursIn(v, list) == \E j \in DOMAIN list : SameKey(v, list[j])

\* a list with the advisory id and title of every finding blanked
WithoutAdvisory(list) ==
    [i \in DOMAIN list |-> [list[i] EXCEPT !.id = Undefined, !.title = Undefined]]

\* C4: fixed is exactly the baseline findings whose (package, severity) does
\* not occur in current, introduced exactly the current findings whose
\* (package, severity) does not occur in baseline, both in list order; the
\* advisory id and title of the findings do not affect which are chosen.
C4_DiffByNameAndSeverity ==
    output.op = "diffVulnerabilities" =>
        LET b == input.baseline
            c == input.current
            blind == diffVulnerabilities(WithoutAdvisory(b), WithoutAdvisory(c))
        IN /\ output.value.fixed = SelectSeq(b, LAMBDA v : ~OccursIn(v, c))
           /\ output.value.introduced = SelectSeq(c, LAMBDA v : ~OccursIn(v, b))
           /\ WithoutAdvisory(output.value.fixed) = blind.fixed
           /\ WithoutAdvisory(output.value.introduced) = blind.introduced
           /\ (b = <<Finding("lodash", "high", "GHSA-1")>> /\ c = <<>>) =>
                (output.value.fixed = b /\ output.value.introduced = <<>>)
           /\ (b = <<>> /\ c = <<Finding("express", "critical", "GHSA-1")>>) =>
                (output.value.introduced = c /\ output.value.fixed = <<>>)

\* C4's case: a package kept at its severity under another advisory, one
\* finding fixed and one introduced
C4_Witness ==
    /\ output.op = "diffVulnerabilities"
    /\ input.baseline = <<Finding("lodash", "high", "GHSA-1"),
                          Finding("express", "critical", "GHSA-1")>>
    /\ input.current = <<Finding("lodash", "high", "GHSA-2"),
                         Finding("express", "high", "GHSA-1")>>
    /\ output.value.fixed = <<Finding("express", "critical", "GHSA-1")>>
    /\ output.value.introduced = <<Finding("express", "high", "GHSA-1")>>

-----------------------------------------------------------------------------
(* Specification of getAuditSummary and the decisions on one project root:
   every combination of manifests and scanner outcomes below *)

MaxFindings == 2
MaxCount == 1

PackageNames == {"lodash", "express"}

\* absent, three recognised levels and one that npm audit does not define
RawNodeSeverities == {Undefined, "critical", "high", "low", "none"}

NpmEntriesOf(name) ==
    {NpmEntry(name, severity, fixAvailable) :
        severity \in RawNodeSeverities, fixAvailable \in {NoFix, FixFlag, FixVersion}}

\* the vulnerabilities maps: up to MaxFindings entries with distinct package names
NpmEntrySeqs ==
    UNION {{es \in [1..n -> UNION {NpmEntriesOf(name) : name \in PackageNames}] :
                \A i, j \in 1..n : i # j => es[i].name # es[j].name} :
           n \in 0..MaxFindings}

\* the metadata blocks: counts up to MaxCount for some of the severities, and
\* the block of the README's example
MetaDomains == {{}, {"high"}, {"critical", "moderate"}, {"moderate", "low", "info"}}

ExampleMeta == [critical |-> 1, high |-> 2, moderate |-> 3, low |-> 1, info |-> 0]

MetaBlocks == UNION {[D -> 0..MaxCount] : D \in MetaDomains} \cup {ExampleMeta}

NpmReports ==
    {NpmReport(entries, meta) : entries \in NpmEntrySeqs, meta \in MetaBlocks}
    \cup {[vulnerabilities |-> [present |-> TRUE, entries |-> entries],
           metadata |-> [present |-> FALSE]] : entries \in NpmEntrySeqs}

\* npm audit exits 1 when it reports findings
NpmReportRuns == {NpmRun(report) : report \in NpmReports}

\* a report without a vulnerabilities map, the document null, no output, and
\* output that is not JSON
NoVulnerabilitiesMap ==
    [vulnerabilities |-> [present |-> FALSE],
     metadata |-> [present |-> TRUE, vulnerabilities |-> ExampleMeta]]

NpmOtherRuns ==
    {[status |-> "ok", stdout |-> Json(NoVulnerabilitiesMap)],
     [status |-> "error", stdout |-> Json(NoVulnerabilitiesMap)],
     [status |-> "ok", stdout |-> Json(NullJson)],
     [status |-> "ok", stdout |-> EmptyText],
     [status |-> "ok", stdout |-> Garbage],
     [status |-> "error", stdout |-> NoText],
     [status |-> "error", stdout |-> EmptyText],
     [status |-> "error", stdout |-> Garbage]}

NodeEnvs ==
    {[files |-> files, npm |-> npm, pip |-> PipNotInstalled] :
        files \in {{"package.json"}, {"package.json", "requirements.txt"}},
        npm \in NpmReportRuns \cup NpmOtherRuns}

RawPipSeverities == {Undefined, "HIGH", "Medium", "low", "unknown", "constructor"}

PipVulns ==
    {PipVuln("PYSEC-1", known_severity, <<>>) : known_severity \in RawPipSeverities}
    \cup {PipVuln("PYSEC-2", "HIGH", <<"4.2.1", "5.0.0">>)}
    \cup {[id |-> Undefined, fix_versions |-> <<>>, description |-> LongDescription,
           known_severity |-> "critical"]}

\* one or two dependencies with up to MaxFindings findings between them
PipDepSeqs ==
    {<<>>, <<[name |-> "django", version |-> "2.0.0", vulns |-> [present |-> FALSE]]>>}
    \cup {<<PipDep("django", vulns)>> : vulns \in SeqsUpTo(PipVulns, MaxFindings)}
    \cup UNION {{<<PipDep("django", SubSeq(vulns, 1, k)),
                   PipDep("flask", SubSeq(vulns, k + 1, Len(vulns)))>> : k \in 0..Len(vulns)} :
                vulns \in SeqsUpTo(PipVulns, MaxFindings)}

PipObject(field, deps) ==
    [shape |-> "object",
     dependencies |-> IF field = "dependencies" THEN [present |-> TRUE, items |-> deps]
                      ELSE [present |-> FALSE],
     vulnerabilities |-> IF field = "vulnerabilities" THEN [present |-> TRUE, items |-> deps]
                         ELSE [present |-> FALSE]]

PipReports ==
    {PipArray(deps) : deps \in PipDepSeqs}
    \cup {PipObject("dependencies", deps) : deps \in PipDepSeqs}
    \cup {PipObject("vulnerabilities", <<PipDep("django", <<PipVuln("PYSEC-1", "HIGH", <<>>)>>)>>),
          PipObject("none", <<>>)}

\* pip-audit answers, or only python -m pip_audit does, or neither gives
\* anything usable
PipRuns ==
    {[first |-> Json(report), second |-> NoText] : report \in PipReports}
    \cup {[first |-> NoText, second |-> Json(report)] : report \in PipReports}
    \cup {PipNotInstalled,
          [first |-> NoText, second |-> Garbage],
          [first |-> EmptyText, second |-> Json(PipArray(<<>>))],
          [first |-> Garbage, second |-> Json(PipArray(<<>>))],
          [first |-> Json(NullJson), second |-> NoText]}

PythonEnvs ==
    {[files |-> files, npm |-> NpmNotInstalled, pip |-> pip] :
        files \in {{"requirements.txt"}, {"pyproject.toml", "Pipfile"}},
        pip \in PipRuns}
    \cup {[files |-> {"Pipfile"}, npm |-> NpmNotInstalled, pip |-> pip] :
            pip \in {PipNotInstalled, [first |-> Json(PipArray(<<>>)), second |-> NoText]}}

\* roots without a manifest, also where the scanners would answer
NoProjectEnvs ==
    {[files |-> {}, npm |-> NpmNotInstalled, pip |-> PipNotInstalled],
     [files |-> {}, npm |-> NpmRun(NpmReport(<<Lodash>>, ExampleMeta)),
      pip |-> [first |-> Json(PipArray(<<PipDep("django", <<PipVuln("PYSEC-1", "HIGH", <<>>)>>)>>)),
               second |-> NoText]],
     [files |-> {"setup.py"}, npm |-> NpmNotInstalled,
      pip |-> [first |-> Json(PipArray(<<PipDep("django", <<PipVuln("PYSEC-1", "HIGH", <<>>)>>)>>)),
               second |-> NoText]]}

AuditEnvs == NodeEnvs \cup PythonEnvs \cup NoProjectEnvs

InitAudit ==
    /\ PureInit
    /\ input \in AuditEnvs
    /\ output = None

RunGetAuditSummary ==
    /\ output = None
    /\ output' = [op |-> "getAuditSummary", result |-> getAuditSummary(input)]
    /\ UNCHANGED input
    /\ PureUnchanged

RunGetShipReadiness ==
    /\ output = None
    /\ output' = [op |-> "getShipReadiness", result |-> getShipReadiness(input)]
    /\ UNCHANGED input
    /\ PureUnchanged

NextAudit ==
    \/ RunGetAuditSummary
    \/ RunGetShipReadiness

SpecAudit == InitAudit /\ [][NextAudit]_vars

-----------------------------------------------------------------------------
(* Properties of getAuditSummary and getShipReadiness, under SpecAudit *)

SummaryReturned == output.op = "getAuditSummary" /\ output.result.ok

SumOfCounts(counts) ==
    counts["critical"] + counts["high"] + counts["moderate"] + counts["low"]
    + counts["info"]

\* C7: every summary that getAuditSummary returns, from any of its branches,
\* has totalVulnerabilities equal to the length of its vulnerabilities list
\* and hasCriticalOrHigh equal to (counts.critical > 0 or counts.high > 0).
C7_SummaryInvariants ==
    SummaryReturned =>
        LET summary == output.result.value
        IN /\ summary.totalVulnerabilities = Len(summary.vulnerabilities)
           /\ summary.hasCriticalOrHigh
                = (summary.counts["critical"] > 0 \/ summary.counts["high"] > 0)

\* a node summary whose metadata counts do not add up to its list's length
C7_Witness ==
    /\ SummaryReturned
    /\ detectProjectType(input.files) = "node"
    /\ output.result.value.vulnerabilities # <<>>
    /\ SumOfCounts(output.result.value.counts) # Len(output.result.value.vulnerabilities)
    /\ output.result.value.hasCriticalOrHigh

\* C8: getShipReadiness answers safeToShip = true exactly when the summary's
\* counts.critical and counts.high are both 0, whatever the other counts and
\* the length of the list.
C8_SafeIffNoCriticalOrHigh ==
    (output.op = "getShipReadiness" /\ output.result.ok) =>
        LET summary == getAuditSummary(input).value
        IN output.result.value.safeToShip
            = (summary.counts["critical"] = 0 /\ summary.counts["high"] = 0)

\* safe to ship with a moderate count and a list that holds a critical finding
C8_Witness ==
    /\ output.op = "getShipReadiness"
    /\ output.result.ok
    /\ output.result.value.safeToShip
    /\ output.result.value.moderate > 0
    /\ \E i \in DOMAIN getAuditSummary(input).value.vulnerabilities :
            getAuditSummary(input).value.vulnerabilities[i].severity = "critical"

\* the scanner of the detected ecosystem could not be run, or what it printed
\* is not JSON
ScannerFailed(env) ==
    IF detectProjectType(env.files) = "node"
    THEN env.npm.stdout.kind # "json"
    ELSE /\ detectProjectType(env.files) = "python"
         /\ IF env.pip.first # NoText THEN env.pip.first.kind # "json"
            ELSE env.pip.second.kind # "json"

\* C9: for both ecosystems, when a manifest is detected and the scanner cannot
\* be run or its output is unparsable, getAuditSummary ends in an error and
\* never returns an empty summary.
C9_ScannerFailureIsError ==
    (output.op = "getAuditSummary" /\ ScannerFailed(input)) => ~output.result.ok

\* C10: in the node adapter the counts of the summary are the raw metadata
\* counts (0 where missing), not derived from the findings; a finding without
\* a severity is listed as moderate; a finding whose severity is not one of
\* the five levels is not listed and changes no count.
NodeReportRead ==
    /\ SummaryReturned
    /\ detectProjectType(input.files) = "node"
    /\ input.npm.stdout.kind = "json"
    /\ input.npm.stdout.value # NullJson
    /\ input.npm.stdout.value.vulnerabilities.present

RawMeta ==
    IF input.npm.stdout.value.metadata.present
    THEN input.npm.stdout.value.metadata.vulnerabilities
    ELSE <<>>

Listable(e) == e.v.severity = Undefined \/ e.v.severity \in Severities

-----------------------------------------------------------------------------
(* Properties of the pip adapter, under SpecAudit *)

PipReportRead ==
    /\ SummaryReturned
    /\ detectProjectType(input.files) = "python"

\* the findings of the report that was read, in document order, each with the
\* package it belongs to
RECURSIVE RawPipFindings(_)
RawPipFindings(deps) ==
    IF deps = <<>> THEN <<>>
    ELSE LET dep == Head(deps)
             vulns == IF dep.vulns.present THEN dep.vulns.items ELSE <<>>
         IN [i \in DOMAIN vulns |-> [name |-> dep.name, v |-> vulns[i]]]
            \o RawPipFindings(Tail(deps))

TranslationTable == {"critical", "high", "medium", "moderate", "low", "info"}

\* the severity the translation table assigns, high for anything else
Translated(known_severity) ==
    IF known_severity = Undefined THEN "high"
    ELSE LET lower == toLowerCase(known_severity)
         IN IF lower \notin TranslationTable THEN "high"
            ELSE IF lower = "medium" THEN "moderate"
            ELSE lower

\* C11: in the pip adapter every finding is listed and counted; one whose
\* severity is missing or not in the translation table is listed as high and
\* counted as high; medium is translated to moderate.
C11_PipEveryFindingListed ==
    PipReportRead =>
        LET summary == output.result.value
            raw == RawPipFindings(PipDeps(runPipAudit(input.files, input.pip)))
        IN /\ Len(summary.vulnerabilities) = Len(raw)
           /\ \A i \in DOMAIN raw :
                /\ i \in DOMAIN summary.vulnerabilities
                /\ summary.vulnerabilities[i].name = raw[i].name
                /\ summary.vulnerabilities[i].severity = Translated(raw[i].v.known_severity)
           /\ \A s \in Severities :
                summary.counts[s]
                    = Cardinality({i \in DOMAIN raw : Translated(raw[i].v.known_severity) = s})

-----------------------------------------------------------------------------
(* Specification of the ranking functions on one project root *)

MaxRankFindings == 3

RankSeverities == {"CRITICAL", "HIGH", "Medium", "low"}

RankPipVulns ==
    {PipVuln("PYSEC-1", known_severity, fix_versions) :
        known_severity \in RankSeverities, fix_versions \in {<<>>, <<"4.2.1">>}}
    \cup {PipVuln("PYSEC-2", "low", <<"5.0.0", "4.2.1">>)}

\* the findings of a report spread over the packages django and flask
RankPipEnvs ==
    {PythonEnv(<<PipDep("django", SubSeq(p[1], 1, Min(p[2], Len(p[1])))),
                 PipDep("flask", SubSeq(p[1], Min(p[2], Len(p[1])) + 1, Len(p[1])))>>) :
        p \in SeqsUpTo(RankPipVulns, MaxRankFindings) \X (0..MaxRankFindings)}

RankNames == <<"lodash", "express", "minimist">>

RankNpmEntries(name) ==
    {NpmEntry(name, severity, fixAvailable) :
        severity \in {Undefined, "critical", "low"},
        fixAvailable \in {NoFix, FixFlag, FixVersion}}

\* reports of up to three packages, in the order of RankNames
RankNodeEnvs ==
    UNION {{NodeEnv(es) : es \in {es \in [1..n -> UNION {RankNpmEntries(RankNames[i]) : i \in 1..3}] :
                                    \A i \in 1..n : es[i].name = RankNames[i]}} :
           n \in 0..Min(MaxRankFindings, 3)}

RankEnvs ==
    RankPipEnvs \cup RankNodeEnvs
    \cup {[files |-> {}, npm |-> NpmNotInstalled, pip |-> PipNotInstalled],
          [files |-> {"pyproject.toml"}, npm |-> NpmNotInstalled, pip |-> PipNotInstalled]}

InitRank ==
    /\ PureInit
    /\ input \in RankEnvs
    /\ output = None

\* the function is applied twice to the same project
RunGetHighestRiskDependency ==
    /\ output = None
    /\ output' = [op |-> "getHighestRiskDependency",
                  result |-> getHighestRiskDependency(input),
                  again |-> getHighestRiskDependency(input)]
    /\ UNCHANGED input
    /\ PureUnchanged

RunGetUpgradeSuggestions ==
    /\ output = None
    /\ output' = [op |-> "getUpgradeSuggestions", result |-> getUpgradeSuggestions(input)]
    /\ UNCHANGED input
    /\ PureUnchanged

NextRank ==
    \/ RunGetHighestRiskDependency
    \/ RunGetUpgradeSuggestions

SpecRank == InitRank /\ [][NextRank]_vars

-----------------------------------------------------------------------------
(* Properties of the ranking functions, under SpecRank *)

NonIncreasingByScore(list) ==
    \A i, j \in DOMAIN list :
        i < j => SEVERITY_SCORE[list[i].severity] >= SEVERITY_SCORE[list[j].severity]

Fixable(list) == {i \in DOMAIN list : Truthy(list[i].fixAvailable)}

\* C12: the suggestions of getUpgradeSuggestions hold at most one entry per
\* package name and are ordered non-increasing by severity score
\* (critical 100, high 80, moderate 50, low 20, info 5).
C12_SuggestionsUniqueAndSorted ==
    (output.op = "getUpgradeSuggestions" /\ output.result.ok) =>
        LET suggestions == output.result.value.suggestions
        IN /\ \A i, j \in DOMAIN suggestions :
                i # j => suggestions[i].package # suggestions[j].package
           /\ NonIncreasingByScore(suggestions)
           /\ SEVERITY_SCORE
                = [critical |-> 100, high |-> 80, moderate |-> 50, low |-> 20, info |-> 5]

\* three fixable findings over two packages, suggested in another order than
\* they were found
C12_Witness ==
    /\ output.op = "getUpgradeSuggestions"
    /\ output.result.ok
    /\ Len(output.result.value.suggestions) = 2
    /\ LET list == getAuditSummary(input).value.vulnerabilities
       IN /\ Cardinality(Fixable(list)) = 3
          /\ output.result.value.suggestions[1].package # list[1].name
          /\ SEVERITY_SCORE[output.result.value.suggestions[1].severity]
                > SEVERITY_SCORE[output.result.value.suggestions[2].severity]

\* C13: allBySeverity is the summary's findings reordered non-increasing by
\* score with findings of equal score in their original order; highest is its
\* first element and is null exactly when there are no findings; a second run
\* on the same project, and a run on the ordered list, give the same answer.
C13_HighestRiskStableAndIdempotent ==
    (output.op = "getHighestRiskDependency" /\ output.result.ok) =>
        LET list == getAuditSummary(input).value.vulnerabilities
            sorted == output.result.value.allBySeverity
            highest == output.result.value.highest
        IN /\ Len(sorted) = Len(list)
           /\ NonIncreasingByScore(sorted)
           /\ \A s \in Severities :
                LET OfSeverity(v) == v.severity = s
                IN SelectSeq(sorted, OfSeverity) = SelectSeq(list, OfSeverity)
           /\ (highest = NullJson) = (list = <<>>)
           /\ list # <<>> =>
                /\ highest = sorted[1]
                /\ \A i \in DOMAIN list :
                      SEVERITY_SCORE[list[i].severity] <= SEVERITY_SCORE[highest.severity]
           /\ output.again = output.result
           /\ HighestRiskOf([vulnerabilities |-> sorted]).highest = highest
           /\ HighestRiskOf([vulnerabilities |-> sorted]).allBySeverity = sorted

\* a reordered list in which two different findings of one score follow each
\* other
C13_Witness ==
    /\ output.op = "getHighestRiskDependency"
    /\ output.result.ok
    /\ Len(output.result.value.allBySeverity) = 3
    /\ output.result.value.allBySeverity # getAuditSummary(input).value.vulnerabilities
    /\ output.result.value.allBySeverity[1] # output.result.value.allBySeverity[2]
    /\ output.result.value.allBySeverity[1].severity
            = output.result.value.allBySeverity[2].severity
    /\ output.result.value.highest = output.result.value.allBySeverity[1]

-----------------------------------------------------------------------------
(* Specification of the target identity: getRepoId and parseGitHubRepo on one
   set of arguments *)

Https == <<"h", "t", "t", "p", "s", ":", "/", "/">>
Http == <<"h", "t", "t", "p", ":", "/", "/">>
SshScheme == <<"s", "s", "h", ":", "/", "/", "g", "i", "t", "@">>
Www == <<"w", "w", "w", ".">>
TreeMain == <<"/", "t", "r", "e", "e", "/", "m", "a", "i", "n">>

\* full URLs of the repository acme/widgets on the host
UrlSpellings ==
    {scheme \o www \o AcmeWidgetsHost \o suffix :
        scheme \in {Https, Http, SshScheme},
        www \in {<<>>, Www},
        suffix \in {<<>>, DotGit, <<"/">>, DotGit \o <<"/">>, TreeMain}}

\* git@github.com:acme/widgets.git
ScpSpelling == <<"g", "i", "t", "@">> \o GitHubCom \o <<":">> \o AcmeWidgets \o DotGit

Spellings ==
    {AcmeWidgets, <<" ">> \o AcmeWidgets \o <<" ">>, AcmeWidgets \o DotGit,
     AcmeWidgetsHost, Www \o AcmeWidgetsHost, ScpSpelling}
    \cup UrlSpellings

Acme == <<"a", "c", "m", "e">>

\* references without separator, without owner, without repository
MalformedRefs ==
    {Widgets, <<"/">> \o Widgets, Acme \o <<"/">>, <<" ">>, <<"/">>,
     GitHubCom \o <<"/">> \o Acme, Https \o GitHubCom \o <<"/">> \o Acme \o <<"/">>,
     Https \o GitHubCom \o <<"/", "/">> \o Widgets}

App == <<"a", "p", "p">>

IdentityArgs ==
    {Target(projectPath, githubRepo, ref, subpath) :
        projectPath \in {Absent, <<>>, SrvApp, App, <<".", ".", "/">> \o App},
        githubRepo \in Spellings \cup MalformedRefs \cup {Absent, <<>>},
        ref \in {Absent, Dev},
        subpath \in {Absent, <<>>, Frontend, <<"/">> \o Frontend,
                     SubSeq(Frontend, 1, Len(Frontend) - 1)}}

InitIdentity ==
    /\ PureInit
    /\ input \in IdentityArgs
    /\ output = None

RunGetRepoId ==
    /\ output = None
    /\ output' = [op |-> "getRepoId", result |-> getRepoId(input)]
    /\ UNCHANGED input
    /\ PureUnchanged

RunParseGitHubRepo ==
    /\ output = None
    /\ input.githubRepo # Absent
    /\ output' = [op |-> "parseGitHubRepo", result |-> parseGitHubRepo(input.githubRepo)]
    /\ UNCHANGED input
    /\ PureUnchanged

NextIdentity ==
    \/ RunGetRepoId
    \/ RunParseGitHubRepo

SpecIdentity == InitIdentity /\ [][NextIdentity]_vars

-----------------------------------------------------------------------------
(* Properties of the target identity, under SpecIdentity *)

FrontendName == SubSeq(Frontend, 1, Len(Frontend) - 1)

LocalPrefix == <<"l", "o", "c", "a", "l", ":">>

\* the key of the repository acme/widgets for a subpath argument
AcmeWidgetsKey(subpath) ==
    IF subpath \in {Absent, <<>>} THEN AcmeWidgets
    ELSE AcmeWidgets \o <<":">> \o FrontendName

\* the absolute path of a projectPath argument in the working directory /work
AbsolutePath(projectPath) ==
    IF projectPath \in {Absent, <<>>} THEN Cwd
    ELSE IF projectPath = SrvApp THEN SrvApp
    ELSE IF projectPath = App THEN Cwd \o <<"/">> \o App
    ELSE <<"/">> \o App

\* C14: getRepoId gives every accepted spelling of one remote repository the
\* same key: the shorthand, the host form and every full URL of acme/widgets
\* give "acme/widgets", with subpath "frontend/" "acme/widgets:frontend"; a
\* local target gives "local:" and its absolute path.
C14_OneKeyPerRepository ==
    output.op = "getRepoId" =>
        /\ input.githubRepo \in Spellings =>
                /\ output.result.ok
                /\ output.result.value = AcmeWidgetsKey(input.subpath)
        /\ input.githubRepo = Absent =>
                /\ output.result.ok
                /\ output.result.value = LocalPrefix \o AbsolutePath(input.projectPath)

-----------------------------------------------------------------------------
(* Specification of requests on several refs of one repository and subpath *)

MaxRefRequests == 3

Main == <<"m", "a", "i", "n">>

RefTargets == {Target(Absent, AcmeWidgets, ref, Frontend) : ref \in {Absent, Dev, Main}}

InitRefs ==
    /\ InitRequests
    /\ world \in HistoryEnvs

BeginRefRequest == \E slot \in Slots, args \in RefTargets :
    started < MaxRefRequests /\ Begin(slot, args)

NextRefs ==
    \/ BeginRefRequest
    \/ AccessAnswered
    \/ ProjectFetched
    \/ RunCompare
    \/ RunFinally

SpecRefs == InitRefs /\ [][NextRefs]_vars

\* C15: the key does not depend on ref: requests that differ only in ref get
\* the same key, and a request that follows one on another ref is compared
\* against the scan that one stored, not reported as a first scan.
C15_RefNotInKey ==
    Compared =>
        LET calls == Calls(last.repoId)
        IN /\ last.repoId = AcmeWidgets \o <<":">> \o FrontendName
           /\ DOMAIN history = {last.repoId}
           /\ Len(calls) >= 2 =>
                /\ last.result.isFirstScan = FALSE
                /\ last.previous.id = calls[Len(calls) - 1].scan.id
                /\ last.result.baseline.scannedAt = calls[Len(calls) - 1].scan.scannedAt

\* a compare on one ref whose baseline is the scan of another ref
C15_Witness ==
    /\ Compared
    /\ Len(Calls(last.repoId)) >= 2
    /\ last.args.ref = Dev
    /\ last.previous.ref = Main
    /\ last.result.isFirstScan = FALSE

-----------------------------------------------------------------------------
(* Specification of the five tools: requests of any tool on a remote target,
   a local target and malformed references, up to two of them in flight *)

MaxToolRequests == 2

ToolTargets ==
    {Target(Absent, AcmeWidgets, Absent, Frontend),
     Target(SrvApp, Absent, Absent, Absent),
     Target(Absent, Widgets, Absent, Absent),
     Target(Absent, <<"/">> \o Widgets, Dev, Absent),
     Target(SrvApp, Acme \o <<"/">>, Absent, Absent)}

InitTools ==
    /\ InitRequests
    /\ world \in ScanEnvs

BeginCompareRequest == \E slot \in Slots, args \in ToolTargets :
    started < MaxToolRequests /\ Begin(slot, args)

BeginToolRequest == \E slot \in Slots, tool \in CallbackTools, args \in ToolTargets :
    started < MaxToolRequests /\ BeginTool(slot, tool, args)

RunCallback == \E slot \in Slots : RunTool(slot)

NextTools ==
    \/ BeginCompareRequest
    \/ BeginToolRequest
    \/ AccessAnswered
    \/ ProjectFetched
    \/ RunCompare
    \/ RunCallback
    \/ RunFinally

SpecTools == InitTools /\ [][NextTools]_vars

C17_MalformedReferenceFails ==
    [][\A slot \in Slots, args \in ToolTargets :
          (args.githubRepo \in MalformedRefs /\ Begin(slot, args)) =>
              /\ ~parseGitHubRepo(args.githubRepo).ok
              /\ ~getRepoId(args).ok
              /\ last'.event = "failed"
              /\ last'.stage = "getRepoId"
              /\ UNCHANGED <<scanStore, history, clock, reqs, tmpDirs>>]_vars

\* a request with a malformed reference failed while a history exists
C17_Witness ==
    /\ last.event = "failed"
    /\ last.stage = "getRepoId"
    /\ last.id = 2
    /\ scanStore # <<>>
    /\ \A slot \in Slots : reqs[slot].pc = "idle"

-----------------------------------------------------------------------------
(* Further properties of getAuditSummary and getShipReadiness, under SpecAudit *)

ReasonNone == "No known vulnerabilities were found"
ReasonModerateLow == "There are no critical or high severity issues"
ReasonCriticalHigh == "Do not ship until these are addressed"

\* what the pip scanner printed is missing, is not JSON or is null, or no
\* file the scanner reads is there
NoUsablePipResult(env) ==
    \/ "requirements.txt" \notin env.files /\ "pyproject.toml" \notin env.files
    \/ LET rawOut == IF env.pip.first # NoText THEN env.pip.first ELSE env.pip.second
       IN rawOut.kind # "json" \/ rawOut.value = NullJson

\* C18: with no manifest of either ecosystem at the root, getAuditSummary
\* returns an empty valid summary without error; with a Python project
\* detected and no usable result of the pip scanner, it raises an error.
C18_NoProjectEmptyPipFailureError ==
    output.op = "getAuditSummary" =>
        /\ input.files \cap ManifestFiles = {} =>
                /\ output.result.ok
                /\ output.result.value
                    = [counts |-> [critical |-> 0, high |-> 0, moderate |-> 0,
                                   low |-> 0, info |-> 0],
                       totalVulnerabilities |-> 0,
                       hasCriticalOrHigh |-> FALSE,
                       vulnerabilities |-> <<>>]
        /\ (detectProjectType(input.files) = "python" /\ NoUsablePipResult(input)) =>
                ~output.result.ok

\* no manifest, though both scanners would report findings there
C18_Witness ==
    /\ output.op = "getAuditSummary"
    /\ input.files \cap ManifestFiles = {}
    /\ input.npm.stdout.kind = "json"
    /\ input.pip.first.kind = "json"
    /\ output.result.ok
    /\ output.result.value.totalVulnerabilities = 0

\* C19: the reason of getShipReadiness is one of three templates, determined
\* by hasCriticalOrHigh and totalVulnerabilities = 0: "no known
\* vulnerabilities" iff neither critical/high nor any finding, the
\* moderate/low reason iff no critical/high and some finding, the
\* critical/high reason iff hasCriticalOrHigh.
C19_ReasonTemplates ==
    (output.op = "getShipReadiness" /\ output.result.ok) =>
        LET summary == getAuditSummary(input).value
            reason == output.result.value.reason
        IN /\ reason \in {ReasonNone, ReasonModerateLow, ReasonCriticalHigh}
           /\ reason = ReasonNone
                <=> (~summary.hasCriticalOrHigh /\ summary.totalVulnerabilities = 0)
           /\ reason = ReasonModerateLow
                <=> (~summary.hasCriticalOrHigh /\ summary.totalVulnerabilities > 0)
           /\ reason = ReasonCriticalHigh <=> summary.hasCriticalOrHigh

\* the critical/high reason for a summary without any listed finding
C19_Witness ==
    /\ output.op = "getShipReadiness"
    /\ output.result.ok
    /\ getAuditSummary(input).value.hasCriticalOrHigh
    /\ getAuditSummary(input).value.totalVulnerabilities = 0
    /\ output.result.value.reason = ReasonCriticalHigh
    /\ output.result.value.quoted = <<0, 1>>

NoCriticalOrHighSomeModerateOrLow(summary) ==
    /\ summary.counts["critical"] = 0
    /\ summary.counts["high"] = 0
    /\ summary.counts["moderate"] > 0 \/ summary.counts["low"] > 0

QuotesModerateAndLow(readiness, summary) ==
    /\ readiness.reason = ReasonModerateLow
    /\ readiness.quoted = <<summary.counts["moderate"], summary.counts["low"]>>
    /\ readiness.moderate = summary.counts["moderate"]
    /\ readiness.low = summary.counts["low"]
    /\ readiness.recommendation = "Run the suggest_upgrades tool"

\* C20 as stated: whenever the summary's critical and high counts are 0 and
\* its moderate or low count is positive, getShipReadiness returns the reason
\* that quotes the exact moderate and low counts and recommends the upgrade
\* suggestions, also when the list of findings is empty.
C20_ModerateLowReasonByCounts ==
    (output.op = "getShipReadiness" /\ output.result.ok) =>
        LET summary == getAuditSummary(input).value
        IN NoCriticalOrHighSomeModerateOrLow(summary) =>
                QuotesModerateAndLow(output.result.value, summary)

\* C20 amended: with critical and high counts 0 and a positive moderate or
\* low count, getShipReadiness returns the reason quoting the exact moderate
\* and low counts and recommending the upgrade suggestions exactly when the
\* list of findings is not empty; when it is empty the answer is the "no
\* known vulnerabilities" reason, which quotes no count.
C20_ModerateLowReasonWhenListed ==
    (output.op = "getShipReadiness" /\ output.result.ok) =>
        LET summary == getAuditSummary(input).value
        IN NoCriticalOrHighSomeModerateOrLow(summary) =>
                IF summary.totalVulnerabilities > 0
                THEN QuotesModerateAndLow(output.result.value, summary)
                ELSE /\ output.result.value.reason = ReasonNone
                     /\ output.result.value.quoted = <<>>
                     /\ output.result.value.recommendation
                            = "Keep running security checks regularly."

\* the moderate/low reason quoting one moderate finding of the metadata while
\* the list holds two findings, none of them moderate
C20_Witness ==
    /\ output.op = "getShipReadiness"
    /\ output.result.ok
    /\ output.result.value.reason = ReasonModerateLow
    /\ output.result.value.quoted = <<1, 0>>
    /\ Len(getAuditSummary(input).value.vulnerabilities) = 2
    /\ \A i \in DOMAIN getAuditSummary(input).value.vulnerabilities :
            getAuditSummary(input).value.vulnerabilities[i].severity # "moderate"

-----------------------------------------------------------------------------
(* Properties of the upgrade suggestions, under SpecRank *)

HasFix(v) == v.fixAvailable \notin {Undefined, JSFalse}

\* the position of the first finding of the package that has a fix
FirstWithFix(list, name) ==
    CHOOSE i \in DOMAIN list :
        /\ list[i].name = name /\ HasFix(list[i])
        /\ \A j \in 1..(i - 1) : ~(list[j].name = name /\ HasFix(list[j]))

\* C21: getUpgradeSuggestions emits exactly one suggestion for each package
\* that has a finding with a fix and none for any other package; the
\* suggestion carries the severity, range and fix of the first finding of the
\* package that has a fix, whatever findings without a fix precede it; the
\* target is the fix version, or "latest" when the fix is the boolean true;
\* the action is "npm install <name>@<target>" for node and
\* "pip install <name>==<target>" for python.
C21_FirstFixPerPackage ==
    (output.op = "getUpgradeSuggestions" /\ output.result.ok) =>
        LET list == getAuditSummary(input).value.vulnerabilities
            suggestions == output.result.value.suggestions
            WithFix == {list[i].name : i \in {i \in DOMAIN list : HasFix(list[i])}}
        IN /\ {suggestions[k].package : k \in DOMAIN suggestions} = WithFix
           /\ Len(suggestions) = Cardinality(WithFix)
           /\ \A k \in DOMAIN suggestions :
                LET s == suggestions[k]
                    v == list[FirstWithFix(list, s.package)]
                    target == IF v.fixAvailable = JSTrue THEN "latest" ELSE v.fixAvailable
                IN /\ s.severity = v.severity
                   /\ s.current = v.range
                   /\ s.target = target
                   /\ s.action = IF detectProjectType(input.files) = "python"
                                 THEN "pip install " \o s.package \o "==" \o target
                                 ELSE "npm install " \o s.package \o "@" \o target

\* a python package whose first finding has no fix and whose second and third
\* findings have different fixes and severities: the suggestion is the second's
C21_Witness ==
    /\ output.op = "getUpgradeSuggestions"
    /\ output.result.ok
    /\ detectProjectType(input.files) = "python"
    /\ LET list == getAuditSummary(input).value.vulnerabilities
       IN /\ Len(list) = 3
          /\ list[1].name = list[2].name /\ list[2].name = list[3].name
          /\ ~HasFix(list[1]) /\ HasFix(list[2]) /\ HasFix(list[3])
          /\ list[2].fixAvailable # list[3].fixAvailable
          /\ list[2].severity # list[3].severity
          /\ Len(output.result.value.suggestions) = 1
          /\ output.result.value.suggestions[1].target = list[2].fixAvailable
          /\ output.result.value.suggestions[1].action = "pip install django==5.0.0"

-----------------------------------------------------------------------------
(* Specification of getVulnerabilitiesSummary on reports with severity groups
   of up to MaxGroupSize findings *)

MaxGroupSize == 11

GroupSizes == {0, 1} \cup (MaxGroupSize - 1)..MaxGroupSize

\* n findings of one raw severity, numbered from offset + 1, every second one
\* with a fix
PipGroup(known_severity, n, offset) ==
    [i \in 1..n |-> PipVuln("PYSEC-" \o ToString(offset + i), known_severity,
                            IF i % 2 = 0 THEN <<"4.2.1">> ELSE <<>>)]

\* a report that lists the groups from info up to critical, behind the first
\* critical finding
GroupedPipVulns(size) ==
    LET first == IF size["critical"] > 0 THEN 1 ELSE 0
    IN PipGroup("CRITICAL", first, 0)
       \o PipGroup("info", size["info"], 100)
       \o PipGroup("low", size["low"], 200)
       \o PipGroup("Medium", size["moderate"], 300)
       \o PipGroup("HIGH", size["high"], 400)
       \o PipGroup("CRITICAL", size["critical"] - first, first)

GroupShapes ==
    {size \in [Severities -> GroupSizes] :
        /\ size["moderate"] # MaxGroupSize - 1
        /\ size["low"] <= 1 /\ size["info"] <= 1}

SummaryPipEnvs == {PythonEnv(<<PipDep("django", GroupedPipVulns(size))>>) : size \in GroupShapes}

\* node reports of n packages, direct and transitive in turn
SummaryNodeEnvs ==
    {NodeEnv([i \in 1..n |->
                [name |-> "pkg" \o ToString(i),
                 v |-> [severity |-> IF i = 2 THEN "low" ELSE "high",
                        via |-> [kind |-> "array", items |-> <<PrototypePollution>>],
                        isDirect |-> IF i % 2 = 0 THEN JSFalse ELSE JSTrue,
                        range |-> "<4.17.21",
                        fixAvailable |-> IF i % 3 = 0 THEN NoFix ELSE FixVersion]]]) :
        n \in {0, MaxGroupSize + 1}}

SummaryEnvs ==
    SummaryPipEnvs \cup SummaryNodeEnvs
    \cup {[files |-> {}, npm |-> NpmNotInstalled, pip |-> PipNotInstalled],
          [files |-> {"Pipfile"}, npm |-> NpmNotInstalled, pip |-> PipNotInstalled]}

InitSummary ==
    /\ PureInit
    /\ input \in SummaryEnvs
    /\ output = None

RunGetVulnerabilitiesSummary ==
    /\ output = None
    /\ output' = [op |-> "getVulnerabilitiesSummary",
                  result |-> getVulnerabilitiesSummary(input)]
    /\ UNCHANGED input
    /\ PureUnchanged

NextSummary == RunGetVulnerabilitiesSummary

SpecSummary == InitSummary /\ [][NextSummary]_vars

\* the parts a group of n findings takes: heading, up to 10 lines, "and N more"
BlockLen(n) == IF n = 0 THEN 0 ELSE 1 + Min(n, 10) + (IF n > 10 THEN 1 ELSE 0)

RECURSIVE BlocksBefore(_, _)
BlocksBefore(bySeverity, i) ==
    IF i = 1 THEN 0
    ELSE BlocksBefore(bySeverity, i - 1) + BlockLen(Len(bySeverity[SEVERITY_ORDER[i - 1]]))

SuggestUpgradesLine == [text |-> "Use suggest_upgrades to get exact commands to fix them."]

\* C22: the summary renders the non-empty severity groups in the order
\* critical, high, moderate, low, info; a group renders its first 10 lines at
\* most, followed by one "and N more" line exactly when it holds more than 10
\* findings, with N its size less 10; the group sizes of bySeverity sum to
\* total; the line pointing at the upgrade suggestions ends the summary
\* exactly when total > 0.
C22_SummaryGroups ==
    (output.op = "getVulnerabilitiesSummary" /\ output.result.ok) =>
        LET r == output.result.value
            parts == r.summary
            list == getAuditSummary(input).value.vulnerabilities
            size == [s \in Severities |-> Len(r.bySeverity[s])]
        IN /\ SEVERITY_ORDER = <<"critical", "high", "moderate", "low", "info">>
           /\ \A s \in Severities :
                size[s] = Cardinality({i \in DOMAIN list : list[i].severity = s})
           /\ SumOfCounts(size) = r.total
           /\ (parts[Len(parts)] = SuggestUpgradesLine) = (r.total > 0)
           /\ \A k \in 1..(Len(parts) - 1) : parts[k] # SuggestUpgradesLine
           /\ r.total > 0 =>
                /\ Len(parts) = 2 + BlocksBefore(r.bySeverity, Len(SEVERITY_ORDER) + 1)
                /\ \A i \in DOMAIN SEVERITY_ORDER :
                      LET s == SEVERITY_ORDER[i]
                          start == 2 + BlocksBefore(r.bySeverity, i)
                      IN size[s] > 0 =>
                            /\ parts[start] = [heading |-> s, count |-> size[s]]
                            /\ \A k \in 1..Min(size[s], 10) :
                                  parts[start + k] = r.bySeverity[s][k]
                            /\ size[s] > 10 =>
                                  parts[start + 11] = [more |-> size[s] - 10]

\* groups of 11, 10 and 1 findings rendered together: the first with an
\* "and 1 more" line, the others without
C22_Witness ==
    /\ output.op = "getVulnerabilitiesSummary"
    /\ output.result.ok
    /\ Len(output.result.value.bySeverity["critical"]) = 11
    /\ Len(output.result.value.bySeverity["high"]) = 10
    /\ Len(output.result.value.bySeverity["moderate"]) = 0
    /\ Len(output.result.value.bySeverity["low"]) = 1
    /\ output.result.value.summary[13] = [more |-> 1]
    /\ output.result.value.summary[14] = [heading |-> "high", count |-> 10]
    /\ output.result.value.summary[25] = [heading |-> "low", count |-> 1]
    /\ getAuditSummary(input).value.vulnerabilities[2].severity # "critical"

-----------------------------------------------------------------------------
(* Multiplicities in the difference, under SpecDiff *)

NoRepeatedKey(list) ==
    \A i, j \in DOMAIN list : i # j => ~SameKey(list[i], list[j])

\* the number of findings of list with the key of v
Occurrences(v, list) == Cardinality({i \in DOMAIN list : SameKey(v, list[i])})

\* C23 as stated: no two entries of fixed share a (package, severity) key,
\* and no two entries of introduced do.
C23_NoRepeatedKeys ==
    output.op = "diffVulnerabilities" =>
        /\ NoRepeatedKey(output.value.fixed)
        /\ NoRepeatedKey(output.value.introduced)

\* C23: multiplicities do not decide membership, and are kept in the lists:
\* a key that occurs in both baseline and current occurs in neither fixed nor
\* introduced, however often it occurs on either side; a key that occurs in
\* the baseline only occurs in fixed as often as in the baseline, and a key
\* that occurs in current only occurs in introduced as often as in current.
C23_DifferenceKeepsEveryFinding ==
    output.op = "diffVulnerabilities" =>
        LET b == input.baseline
            c == input.current
        IN /\ \A v \in DiffFindings :
                /\ Occurrences(v, output.value.fixed)
                      = IF OccursIn(v, c) THEN 0 ELSE Occurrences(v, b)
                /\ Occurrences(v, output.value.introduced)
                      = IF OccursIn(v, b) THEN 0 ELSE Occurrences(v, c)
           /\ Len(output.value.fixed) <= Len(b)
           /\ Len(output.value.introduced) <= Len(c)

\* two advisories for one package at one severity in the baseline, none in
\* current: both are listed as fixed
C23_Witness ==
    /\ output.op = "diffVulnerabilities"
    /\ Len(input.baseline) = 2
    /\ SameKey(input.baseline[1], input.baseline[2])
    /\ input.baseline[1] # input.baseline[2]
    /\ input.current = <<>>
    /\ output.value.fixed = input.baseline
    /\ ~NoRepeatedKey(output.value.fixed)

-----------------------------------------------------------------------------
(* Failed scans and the history, under Spec *)

\* C24: a compare_scans_over_time request that fails (in getRepoId, in the
\* access check, in the fetch, or in getAuditSummary) leaves the scan store
\* as it was for every key, appends no scan and ends with an error and no
\* comparison result; a request at its callback whose python project has no
\* usable pip result fails this way; the store changes only in a step that
\* returns a comparison.
C24_FailedScanNotSaved ==
    [][/\ (last' # last /\ last'.event = "failed") =>
            /\ scanStore' = scanStore
            /\ history' = history
            /\ "result" \notin DOMAIN last'
            /\ "scan" \notin DOMAIN last'
       /\ \A slot \in Slots :
            (/\ reqs[slot].pc = "resolved"
             /\ reqs[slot].tool = "compare_scans_over_time"
             /\ detectProjectType(EnvOf(reqs[slot]).files) = "python"
             /\ NoUsablePipResult(EnvOf(reqs[slot]))
             /\ reqs'[slot] # reqs[slot]) =>
                /\ last'.event = "failed"
                /\ last'.stage = "getAuditSummary"
                /\ last'.id = reqs[slot].id
                /\ reqs'[slot] = Idle
                /\ scanStore' = scanStore
       /\ scanStore' # scanStore => (last' # last /\ last'.event = "compared")]_vars

\* the second request failed in getAuditSummary while the first one's scan is
\* the only one stored
C24_Witness ==
    /\ last.event = "failed"
    /\ last.stage = "getAuditSummary"
    /\ last.id = 2
    /\ \E k \in DOMAIN scanStore : Len(scanStore[k]) = 1
    /\ \A k \in DOMAIN scanStore : Len(scanStore[k]) = 1 /\ Len(Calls(k)) = 1

-----------------------------------------------------------------------------
(* Specification of requests on several keys: a remote and a local target
   scanned in turn while the projects change *)

MaxKeyRequests == 3
MaxKeyChanges == 2

KeyTargets ==
    {Target(Absent, AcmeWidgets, Absent, Absent), Target(SrvApp, Absent, Absent, Absent)}

InitKeys ==
    /\ InitRequests
    /\ world \in HistoryEnvs

BeginKeyRequest == \E slot \in Slots, args \in KeyTargets :
    started < MaxKeyRequests /\ Begin(slot, args)

ProjectChangesBetweenKeys == \E env \in HistoryEnvs :
    changes < MaxKeyChanges /\ Change(env)

NextKeys ==
    \/ BeginKeyRequest
    \/ AccessGranted
    \/ ProjectStaged
    \/ RunCompare
    \/ RunFinally
    \/ ProjectChangesBetweenKeys

SpecKeys == InitKeys /\ [][NextKeys]_vars

\* the list stored for a key, empty when there is none
OwnList(store, k) == IF k \in DOMAIN store THEN store[k] ELSE <<>>

\* C25: a compare on key A leaves the list of every other key as it was, and
\* its result is the one it gives on a store that holds A's list alone: a
\* first scan exactly when A has no list, and otherwise baseline, fixed and
\* introduced taken from the last scan of A's list and the current summary.
C25_KeysIndependent ==
    [][\A slot \in Slots :
          (Compare(slot) /\ last'.event = "compared") =>
              LET A == reqs[slot].repoId
                  own == OwnList(scanStore, A)
                  alone == compareScansOverTime(IF own = <<>> THEN <<>> ELSE [k \in {A} |-> own],
                               A, last'.summary,
                               [ref |-> last'.scan.ref, subpath |-> last'.scan.subpath,
                                projectType |-> last'.scan.projectType], clock')
              IN /\ DOMAIN scanStore' = DOMAIN scanStore \cup {A}
                 /\ \A B \in DOMAIN scanStore \ {A} : scanStore'[B] = scanStore[B]
                 /\ last'.result = alone.result
                 /\ last'.result.isFirstScan = (own = <<>>)
                 /\ own # <<>> =>
                      LET previous == own[Len(own)]
                          d == diffVulnerabilities(previous.summary.vulnerabilities,
                                                   last'.summary.vulnerabilities)
                      IN /\ previous.repoId = A
                         /\ last'.result.baseline
                              = Snapshot(previous.scannedAt, previous.summary)
                         /\ last'.result.fixed = d.fixed
                         /\ last'.result.introduced = d.introduced]_vars

\* a compare on a key whose baseline is its own earlier scan although another
\* key was scanned since, with another summary
C25_Witness ==
    /\ Compared
    /\ last.result.isFirstScan = FALSE
    /\ last.previous.repoId = last.repoId
    /\ last.result.introduced = <<>>
    /\ \E B \in DOMAIN scanStore \ {last.repoId} :
          /\ scanStore[B][Len(scanStore[B])].id > last.previous.id
          /\ scanStore[B][Len(scanStore[B])].summary # last.previous.summary
          /\ scanStore[B][Len(scanStore[B])].summary # last.summary

-----------------------------------------------------------------------------
(* Specification of detectProjectType on every set of files at the root *)

\* the manifests and files the detection does not look at
RootFiles == ManifestFiles \cup {"package-lock.json", "setup.py", "Pipfile.lock"}

InitDetect ==
    /\ PureInit
    /\ input \in SUBSET RootFiles
    /\ output = None

RunDetectProjectType ==
    /\ output = None
    /\ output' = [op |-> "detectProjectType", result |-> detectProjectType(input)]
    /\ UNCHANGED input
    /\ PureUnchanged

NextDetect == RunDetectProjectType

SpecDetect == InitDetect /\ [][NextDetect]_vars

PipManifests == {"requirements.txt", "pyproject.toml", "Pipfile"}

\* C26: the detection gives node whenever package.json is present, whatever
\* else is; python when package.json is absent and requirements.txt,
\* pyproject.toml or Pipfile is present; and no ecosystem otherwise.
C26_NodeWinsDetection ==
    output.op = "detectProjectType" =>
        /\ "package.json" \in input => output.result = "node"
        /\ ("package.json" \notin input /\ input \cap PipManifests # {}) =>
                output.result = "python"
        /\ ("package.json" \notin input /\ input \cap PipManifests = {}) =>
                output.result = JSNull

\* a root with the node manifest and two pip manifests
C26_Witness ==
    /\ output.op = "detectProjectType"
    /\ input = {"package.json", "requirements.txt", "Pipfile"}
    /\ output.result = "node"

-----------------------------------------------------------------------------
(* The decision tools and the history, under SpecTools *)

\* C27: a step of is_app_safe_to_ship, get_highest_risk_dependency,
\* summarize_vulnerabilities or suggest_upgrades leaves the scan store as it
\* was for every key, and its answer is the function of the scanned project
\* alone, whatever the store holds; the store changes only in a step of
\* compare_scans_over_time that returns a comparison, which adds one scan.
C27_DecisionsLeaveHistory ==
    [][/\ \A slot \in Slots :
            (/\ reqs[slot].pc \in {"resolved", "returned"}
             /\ reqs[slot].tool \in CallbackTools
             /\ reqs'[slot] # reqs[slot]) =>
                /\ scanStore' = scanStore
                /\ history' = history
                /\ (reqs[slot].pc = "resolved" /\ last'.event = "answered") =>
                      last'.result = ToolResult(reqs[slot].tool, EnvOf(reqs[slot])).value
       /\ (last' # last /\ last'.event \in {"answered", "failed"}) =>
            scanStore' = scanStore
       /\ scanStore' # scanStore =>
            /\ last' # last
            /\ last'.event = "compared"
            /\ \E slot \in Slots :
                  /\ reqs[slot].pc = "resolved"
                  /\ reqs[slot].tool = "compare_scans_over_time"
                  /\ reqs[slot].id = last'.id
                  /\ OwnList(scanStore', reqs[slot].repoId)
                        = Append(OwnList(scanStore, reqs[slot].repoId), last'.scan)]_vars

\* a decision tool answered after a comparison had stored a scan, and the
\* store holds that one scan
C27_Witness ==
    /\ last.event = "answered"
    /\ last.id = 2
    /\ last.tool \in CallbackTools
    /\ \E k \in DOMAIN scanStore : Len(scanStore[k]) = 1 /\ scanStore[k][1].id < last.id + 1
    /\ \A k \in DOMAIN scanStore : Len(scanStore[k]) = 1 /\ history[k][1].scan = scanStore[k][1]

-----------------------------------------------------------------------------
(* Specification of the key of a remote target on every short subpath *)

MaxSubpathLen == 4

\* the subpaths of up to MaxSubpathLen characters over a separator and a letter
Subpaths == UNION {[1..n -> {"/", "a"}] : n \in 0..MaxSubpathLen}

SubpathArgs ==
    {Target(Absent, githubRepo, Absent, subpath) :
        githubRepo \in {AcmeWidgets, AcmeWidgetsUrl}, subpath \in Subpaths \cup {Absent}}

InitSubpath ==
    /\ PureInit
    /\ input \in SubpathArgs
    /\ output = None

RunGetRepoIdOfSubpath ==
    /\ output = None
    /\ output' = [op |-> "getRepoId", result |-> getRepoId(input)]
    /\ UNCHANGED input
    /\ PureUnchanged

NextSubpath == RunGetRepoIdOfSubpath

SpecSubpath == InitSubpath /\ [][NextSubpath]_vars

\* every character of the subpath is a separator
OnlySeparators(subpath) == \A i \in DOMAIN subpath : subpath[i] = "/"

\* the part of a key behind its first ":", <<>> when it has none
AfterColon(k) ==
    IF \A i \in DOMAIN k : k[i] # ":" THEN <<>>
    ELSE LET c == CHOOSE i \in DOMAIN k : k[i] = ":" /\ \A j \in 1..(i - 1) : k[j] # ":"
         IN SubSeq(k, c + 1, Len(k))

\* C28: the key of a remote target with a subpath is owner/repo:subpath with
\* the separators at both ends of the subpath trimmed: the part behind ":"
\* neither starts nor ends with "/", and a subpath that is empty once trimmed
\* gives the plain key owner/repo.
C28_SubpathTrimmed ==
    (output.op = "getRepoId" /\ input.subpath # Absent) =>
        /\ output.result.ok
        /\ SubSeq(output.result.value, 1, Len(AcmeWidgets)) = AcmeWidgets
        /\ LET sub == AfterColon(output.result.value)
           IN sub # <<>> => (Head(sub) # "/" /\ sub[Len(sub)] # "/")
        /\ OnlySeparators(input.subpath) => output.result.value = AcmeWidgets

-----------------------------------------------------------------------------
(* First scans, under SpecHistory *)

\* C29: a comparison returns isFirstScan true exactly when it is the first
\* call on its key; a key that was compared once keeps a non-empty list, also
\* after the limit of 20 has evicted its oldest scans.
C29_FirstScanOncePerKey ==
    /\ \A k \in DOMAIN history :
            /\ k \in DOMAIN scanStore
            /\ scanStore[k] # <<>>
            /\ \A i \in DOMAIN history[k] : (history[k][i].previousId = 0) = (i = 1)
    /\ Compared =>
            /\ last.repoId \in DOMAIN history
            /\ last.result.isFirstScan = (Len(history[last.repoId]) = 1)
            /\ last.result.isFirstScan = (last.previous = NoScan)

\* the 22nd comparison on a key whose first scans were evicted: no first scan
C29_Witness ==
    /\ Compared
    /\ Len(history[last.repoId]) = 22
    /\ Len(scanStore[last.repoId]) = 20
    /\ scanStore[last.repoId][1].id > history[last.repoId][2].scan.id
    /\ last.result.isFirstScan = FALSE

-----------------------------------------------------------------------------
(* The summaries of the pip adapter, under SpecAudit *)

\* the raw findings that the adapter lists: all but those whose severity
\* names a member that every object inherits
ListedRaw(raw) ==
    SelectSeq(raw, LAMBDA f : f.v.known_severity = Undefined
                              \/ toLowerCase(f.v.known_severity) \notin InheritedKeys)

\* C30: in every summary of the pip adapter the five counts sum to
\* totalVulnerabilities and each count is the number of listed findings of
\* that severity; every listed finding has isDirect true and fixAvailable
\* equal to the first fix version its advisory lists, or false when it lists
\* none.
C30_PipCountsMatchList ==
    PipReportRead =>
        LET summary == output.result.value
            list == summary.vulnerabilities
            kept == ListedRaw(RawPipFindings(PipDeps(runPipAudit(input.files, input.pip))))
        IN /\ SumOfCounts(summary.counts) = summary.totalVulnerabilities
           /\ \A s \in Severities :
                summary.counts[s] = Cardinality({i \in DOMAIN list : list[i].severity = s})
           /\ Len(list) = Len(kept)
           /\ \A i \in DOMAIN list :
                /\ list[i].isDirect = JSTrue
                /\ list[i].name = kept[i].name
                /\ list[i].fixAvailable
                      = IF kept[i].v.fix_versions = <<>> THEN JSFalse
                        ELSE kept[i].v.fix_versions[1]

\* a pip summary of two findings: one whose advisory lists two fix versions,
\* one without a fix at another severity
C30_Witness ==
    /\ PipReportRead
    /\ Len(output.result.value.vulnerabilities) = 2
    /\ output.result.value.vulnerabilities[1].fixAvailable = "4.2.1"
    /\ output.result.value.vulnerabilities[2].fixAvailable = JSFalse
    /\ output.result.value.vulnerabilities[2].severity = "moderate"
    /\ output.result.value.counts["high"] = 1
    /\ output.result.value.counts["moderate"] = 1
    /\ Len(RawPipFindings(PipDeps(runPipAudit(input.files, input.pip)))) = 2

=============================================================================
